---- MODULE Spec2Model ----
(***************************************************************************)
(* jemi: a JSON emitter that draws its nodes from a caller-supplied pool.  *)
(* A model of src/jemi.c: the pool and its freelist, the builders, the     *)
(* deep copy, the mutators and the recursive emitter.                      *)
(*                                                                         *)
(* A pointer to pool slot pool[i-1] is the integer i; NULL is 0.           *)
(* The anonymous union of a node (children / number / string) is the one   *)
(* field val: the same storage, read according to the node's type.         *)
(***************************************************************************)
EXTENDS Integers, Sequences, FiniteSets, TLC

\* ------------------------------------------------------------------ bounds
MaxPool == 2        \* largest pool_size handed to jemi_init, for any caller
MaxArena == 3       \* largest pool_size, for a caller that only allocates scalars
MaxArgs == 1        \* most elements before the NULL that ends a variadic call
MaxKids == 4        \* most children of the outer container of an emitted document
MaxParts == 2       \* most separately built parts the caller then appends
MaxAppends == 2     \* most appends the caller then makes
MaxCopyKids == 2    \* most children of the outer container of a copied document
MaxSpare == 2       \* most slots left free beside a copied document
MaxCopies == 1      \* most copies the caller then takes
MaxSets == 2        \* most *_set calls the caller makes after a copy
MaxCycles == 2      \* most copies of the template the pool has room for
MaxElems == 3       \* most elements of a container assembled in two ways
MaxPassed == 2      \* most nodes the caller holds to pass to a variadic call
MaxPairs == 2       \* most jemi_object_add_keyval calls the caller makes
MaxNest == 3        \* most children beside or under a nested container
MaxShareCalls == 1  \* most calls the caller makes on a structure with a shared node
MaxWalks == 2       \* most calls the caller makes on the parts it built: appends, then walks

\* ------------------------------------------------------------- node types
JEMI_OBJECT == "OBJECT"
JEMI_ARRAY  == "ARRAY"
JEMI_NUMBER == "NUMBER"
JEMI_STRING == "STRING"
JEMI_TRUE   == "TRUE"
JEMI_FALSE  == "FALSE"
JEMI_NULL   == "NULL"
JEMI_INTEGER == "INTEGER"   \* jemi.h 1.3.0; jemi.c has no case for it

jemi_type_t == {JEMI_OBJECT, JEMI_ARRAY, JEMI_NUMBER, JEMI_STRING,
                JEMI_TRUE, JEMI_FALSE, JEMI_NULL}

\* The type a zeroed slot reads as: the enumerator with value 0.
ZeroType == JEMI_OBJECT

NULL == 0

\* A zeroed node, as memset leaves it.
ZeroNode == [sibling |-> NULL, type |-> ZeroType, val |-> 0]

\* The values the caller passes as numbers (integer-valued doubles).
Numbers == {0, 255}

\* The caller's strings: a const char * is an index into this table.
StringTable == <<  <<"k">>, <<"v", "w">>  >>
Strings == 1..Len(StringTable)

VARIABLES
    s_jemi_pool,       \* the user-supplied block of nodes: slot -> node
    s_jemi_pool_size,  \* number of user-supplied nodes
    s_jemi_freelist,   \* next available node, or NULL
    issued,            \* the slots jemi_alloc has returned since the last reset
    status,            \* "ok", "fault" (a NULL was dereferenced), "hang" (a walk never ends)
    op,                \* the last call made
    arg,               \* its arguments
    ret,               \* its return value
    out,               \* the characters the last jemi_emit sent to the writer
    watch,             \* the calls the caller's log records (fixed from the start)
    budget             \* calls the caller still makes; -1: no limit

vars == <<s_jemi_pool, s_jemi_pool_size, s_jemi_freelist, issued, status,
          op, arg, ret, out, watch, budget>>

\* The heap as a value, for the private functions that thread it along.
Heap == [pool |-> s_jemi_pool, freelist |-> s_jemi_freelist, issued |-> issued]

Slots == 1..s_jemi_pool_size

\* The nodes the caller can hold: those allocated since the last reset.
Allocated == {issued[i] : i \in 1..Len(issued)}

\* ------------------------------------------------------------------ arena

\* Mutant: the head of the freelist is left on the first slot.
ResetHeap_head(size) ==
    [pool     |-> [i \in 1..size |-> [ZeroNode EXCEPT !.sibling = i - 1]],
     freelist |-> IF size > 0 THEN 1 ELSE NULL,
     issued   |-> <<>>]

\* Mutant: the loop starts at the second slot and leaves the first one out.
ResetHeap_skip(size) ==
    [pool     |-> [i \in 1..size |->
                     [ZeroNode EXCEPT !.sibling = IF i <= 2 THEN NULL ELSE i - 1]],
     freelist |-> IF size > 1 THEN size ELSE NULL,
     issued   |-> <<>>]

\* jemi_reset: zero the pool and rebuild the freelist through node->sibling.
ResetHeap(size) ==
    [pool     |-> [i \in 1..size |-> [ZeroNode EXCEPT !.sibling = i - 1]],
     freelist |-> size,
     issued   |-> <<>>]

\* Mutant: the node is handed out but stays at the head of the freelist.
jemi_alloc_nopop(h, type) ==
    LET node == h.freelist IN
    IF node # NULL
    THEN [h |-> [pool     |-> [h.pool EXCEPT ![node].type = type],
                 freelist |-> node,
                 issued   |-> Append(h.issued, node)],
          node |-> node]
    ELSE [h |-> h, node |-> NULL]

\* Mutant: the node keeps its freelist link (node->sibling = NULL is missing).
jemi_alloc_stale(h, type) ==
    LET node == h.freelist IN
    IF node # NULL
    THEN [h |-> [pool     |-> [h.pool EXCEPT ![node].type = type],
                 freelist |-> h.pool[node].sibling,
                 issued   |-> Append(h.issued, node)],
          node |-> node]
    ELSE [h |-> h, node |-> NULL]

\* jemi_alloc: pop one node from the freelist, or return NULL.
jemi_alloc(h, type) ==
    LET node == h.freelist IN
    IF node # NULL
    THEN [h |-> [pool     |-> [h.pool EXCEPT ![node].sibling = NULL,
                                             ![node].type = type],
                 freelist |-> h.pool[node].sibling,
                 issued   |-> Append(h.issued, node)],
          node |-> node]
    ELSE [h |-> h, node |-> NULL]

\* jemi_available: the length of the freelist.
RECURSIVE FreeCount(_, _)
FreeCount(h, node) ==
    IF node = NULL THEN 0 ELSE 1 + FreeCount(h, h.pool[node].sibling)

Available(h) == FreeCount(h, h.freelist)

\* ---------------------------------------------------------------- returns

\* The caller's log of the last call: kept for the calls in watch, blank
\* for the others.
Log(name, args, r, text) ==
    /\ IF name \in watch
       THEN op' = name /\ arg' = args /\ ret' = r /\ out' = text
       ELSE op' = "" /\ arg' = <<>> /\ ret' = NULL /\ out' = <<>>
    /\ budget' = IF budget > 0 THEN budget - 1 ELSE budget
    /\ UNCHANGED watch

\* A call that returns: the heap it leaves, and what the caller sees.
Return(name, args, h, r, text) ==
    /\ s_jemi_pool' = h.pool
    /\ s_jemi_freelist' = h.freelist
    /\ issued' = h.issued
    /\ status' = "ok"
    /\ Log(name, args, r, text)
    /\ UNCHANGED s_jemi_pool_size

\* A call that never returns: it stopped on a NULL dereference ("fault") or
\* walks a cyclic chain for ever ("hang").  The heap is as the call found it.
Stop(name, args, how) ==
    /\ status' = how
    /\ Log(name, args, NULL, <<>>)
    /\ UNCHANGED <<s_jemi_pool, s_jemi_pool_size, s_jemi_freelist, issued>>

\* The caller makes another call: the last one returned, and calls are left.
Running == status = "ok" /\ budget # 0

\* ----------------------------------------------------------- public calls

jemi_init(pool_size) ==
    /\ Running
    /\ s_jemi_pool_size' = pool_size
    /\ LET h == ResetHeap(pool_size) IN
       /\ s_jemi_pool' = h.pool
       /\ s_jemi_freelist' = h.freelist
       /\ issued' = h.issued
    /\ status' = "ok"
    /\ Log("jemi_init", <<pool_size>>, NULL, <<>>)

\* The log keeps, as the argument, how many nodes were allocated before.
jemi_reset ==
    /\ Running
    /\ Return("jemi_reset", <<Len(issued)>>, ResetHeap(s_jemi_pool_size), NULL, <<>>)

\* Mutant: the result of jemi_alloc is used without the test if (node).
jemi_number_unchecked(value) ==
    /\ Running
    /\ LET a == jemi_alloc(Heap, JEMI_NUMBER) IN
       IF a.node # NULL
       THEN Return("jemi_number", <<value>>,
                   [a.h EXCEPT !.pool[a.node].val = value], a.node, <<>>)
       ELSE Stop("jemi_number", <<value>>, "fault")

\* The body shared by jemi_number and jemi_string on a heap: allocate, and
\* store the payload if (node).
Payload(h, type, value) ==
    LET a == jemi_alloc(h, type) IN
    [h    |-> IF a.node # NULL
              THEN [a.h EXCEPT !.pool[a.node].val = value]
              ELSE a.h,
     node |-> a.node]

jemi_number(value) ==
    /\ Running
    /\ LET r == Payload(Heap, JEMI_NUMBER, value)
       IN Return("jemi_number", <<value>>, r.h, r.node, <<>>)

jemi_string(string) ==
    /\ Running
    /\ LET r == Payload(Heap, JEMI_STRING, string)
       IN Return("jemi_string", <<string>>, r.h, r.node, <<>>)

\* jemi_integer(value), declared in jemi.h; its body is not among the sources
\* and is taken to be that of the other scalar constructors.
jemi_integer(value) ==
    /\ Running
    /\ LET r == Payload(Heap, JEMI_INTEGER, value)
       IN Return("jemi_integer", <<value>>, r.h, r.node, <<>>)

jemi_true ==
    /\ Running
    /\ LET a == jemi_alloc(Heap, JEMI_TRUE)
       IN Return("jemi_true", <<>>, a.h, a.node, <<>>)

jemi_false ==
    /\ Running
    /\ LET a == jemi_alloc(Heap, JEMI_FALSE)
       IN Return("jemi_false", <<>>, a.h, a.node, <<>>)

jemi_null ==
    /\ Running
    /\ LET a == jemi_alloc(Heap, JEMI_NULL)
       IN Return("jemi_null", <<>>, a.h, a.node, <<>>)

jemi_bool(boolean) ==
    /\ Running
    /\ LET a == jemi_alloc(Heap, IF boolean THEN JEMI_TRUE ELSE JEMI_FALSE)
       IN Return("jemi_bool", <<IF boolean THEN 1 ELSE 0>>, a.h, a.node, <<>>)

jemi_available ==
    /\ Running
    /\ Return("jemi_available", <<>>, Heap, Available(Heap), <<>>)

\* ---------------------------------------------------------------- builders

\* What the caller can pass where a node is expected: a node it holds, or NULL.
Refs == Allocated \cup {NULL}

\* The argument lists of a variadic call, up to the first NULL: va_arg reads
\* nothing after it.
ArgLists == UNION {[1..k -> Allocated] : k \in 0..MaxArgs}

\* The i-th argument as va_arg reads it; the list ends with NULL.
ArgAt(args, i) == IF i <= Len(args) THEN args[i] ELSE NULL

\* Mutant: a NULL argument is stepped over and the loop goes on to the ones
\* after it.
RECURSIVE ThreadArgs_skip(_, _, _)
ThreadArgs_skip(pool, args, i) ==
    IF i > Len(args) THEN pool
    ELSE IF args[i] = NULL THEN ThreadArgs_skip(pool, args, i + 1)
    ELSE LET rest == SelectSeq(SubSeq(args, i + 1, Len(args)), LAMBDA a : a # NULL)
         IN ThreadArgs_skip([pool EXCEPT ![args[i]].sibling = ArgAt(rest, 1)],
                            args, i + 1)

\* Mutant: the last element keeps the sibling it had (the NULL that ends the
\* arguments is not stored).
RECURSIVE ThreadArgs_keep(_, _, _)
ThreadArgs_keep(pool, args, i) ==
    LET element == ArgAt(args, i) IN
    IF element = NULL \/ ArgAt(args, i + 1) = NULL
    THEN pool
    ELSE ThreadArgs_keep([pool EXCEPT ![element].sibling = ArgAt(args, i + 1)],
                         args, i + 1)

\* while (element != NULL) { element->sibling = va_arg(...); element = element->sibling; }
RECURSIVE ThreadArgs(_, _, _)
ThreadArgs(pool, args, i) ==
    LET element == ArgAt(args, i) IN
    IF element = NULL
    THEN pool
    ELSE ThreadArgs([pool EXCEPT ![element].sibling = ArgAt(args, i + 1)],
                    args, i + 1)

\* Mutant: the first element is stored as children, the loop over the
\* remaining arguments is missing.
Container_unthreaded(h, type, args) ==
    LET a == jemi_alloc(h, type) IN
    IF a.node = NULL
    THEN [h |-> a.h, node |-> NULL, fault |-> TRUE]
    ELSE [h     |-> [a.h EXCEPT !.pool[a.node].val = ArgAt(args, 1)],
          node  |-> a.node,
          fault |-> FALSE]

\* The body shared by jemi_array and jemi_object.  When jemi_alloc returns NULL
\* the store root->children = element goes through NULL (fault).
Container(h, type, args) ==
    LET a == jemi_alloc(h, type) IN
    IF a.node = NULL
    THEN [h     |-> [a.h EXCEPT !.pool = ThreadArgs(a.h.pool, args, 1)],
          node  |-> NULL,
          fault |-> TRUE]
    ELSE [h     |-> [a.h EXCEPT !.pool =
                        ThreadArgs([a.h.pool EXCEPT ![a.node].val = ArgAt(args, 1)],
                                   args, 1)],
          node  |-> a.node,
          fault |-> FALSE]

\* A call whose body dereferenced NULL: the build either stops there, or the
\* store is lost and the call runs on to its return.
ReturnOrFault(name, args, r) ==
    IF r.fault
    THEN \/ Stop(name, args, "fault")
         \/ Return(name, args, r.h, r.node, <<>>)
    ELSE Return(name, args, r.h, r.node, <<>>)

jemi_array(args) ==
    /\ Running
    /\ ReturnOrFault("jemi_array", args, Container(Heap, JEMI_ARRAY, args))

jemi_object(args) ==
    /\ Running
    /\ ReturnOrFault("jemi_object", args, Container(Heap, JEMI_OBJECT, args))

jemi_list(args) ==
    /\ Running
    /\ Return("jemi_list", args,
              [Heap EXCEPT !.pool = ThreadArgs(Heap.pool, args, 1)],
              ArgAt(args, 1), <<>>)

\* ----------------------------------------------------------------- appends

\* Mutant: the walk is missing; prev stays on the first node.
LastSibling_first(pool, node, fuel) == node

\* The walk of jemi_append_list to the last sibling: the node prev ends on, or
\* -1 when the chain is cyclic and the walk never ends.
RECURSIVE LastSibling(_, _, _)
LastSibling(pool, node, fuel) ==
    IF pool[node].sibling = NULL THEN node
    ELSE IF fuel = 0 THEN -1
    ELSE LastSibling(pool, pool[node].sibling, fuel - 1)

\* Mutant: the items are linked after the first node, without the walk.
append_list_first(pool, list, items) ==
    IF list = NULL
    THEN [pool |-> pool, node |-> items, hang |-> FALSE]
    ELSE [pool |-> [pool EXCEPT ![list].sibling = items],
          node |-> list, hang |-> FALSE]

\* jemi_append_list on a heap: [pool, node, hang].
append_list(pool, list, items) ==
    IF list = NULL
    THEN [pool |-> pool, node |-> items, hang |-> FALSE]
    ELSE LET prev == LastSibling(pool, list, Len(pool)) IN
         IF prev = -1
         THEN [pool |-> pool, node |-> NULL, hang |-> TRUE]
         ELSE [pool |-> [pool EXCEPT ![prev].sibling = items],
               node |-> list, hang |-> FALSE]

\* Mutant: the items replace the children (container->children = items).
append_children_over(pool, container, items) ==
    [pool |-> [pool EXCEPT ![container].val = items], hang |-> FALSE]

\* container->children = jemi_append_list(container->children, items), for a
\* container that is not NULL: [pool, hang].
append_children(pool, container, items) ==
    LET r == append_list(pool, pool[container].val, items) IN
    [pool |-> IF r.hang THEN pool ELSE [r.pool EXCEPT ![container].val = r.node],
     hang |-> r.hang]

\* jemi_append_array and jemi_append_object have the same body; h is the heap
\* the call finds.
AppendChildrenIn(h, name, container, items) ==
    IF container = NULL
    THEN Return(name, <<container, items>>, h, NULL, <<>>)
    ELSE LET r == append_children(h.pool, container, items) IN
         IF r.hang
         THEN Stop(name, <<container, items>>, "hang")
         ELSE Return(name, <<container, items>>,
                     [h EXCEPT !.pool = r.pool], container, <<>>)

AppendChildren(name, container, items) ==
    AppendChildrenIn(Heap, name, container, items)

jemi_append_array(array, items) ==
    /\ Running
    /\ array # NULL => s_jemi_pool[array].type = JEMI_ARRAY
    /\ AppendChildren("jemi_append_array", array, items)

jemi_append_object(object, items) ==
    /\ Running
    /\ object # NULL => s_jemi_pool[object].type = JEMI_OBJECT
    /\ AppendChildren("jemi_append_object", object, items)

jemi_append_list(list, items) ==
    /\ Running
    /\ LET r == append_list(s_jemi_pool, list, items) IN
       IF r.hang
       THEN Stop("jemi_append_list", <<list, items>>, "hang")
       ELSE Return("jemi_append_list", <<list, items>>,
                   [Heap EXCEPT !.pool = r.pool], r.node, <<>>)

\* jemi_object_add_keyval(object, key, value), declared in jemi.h with the
\* note "The key string is wrapped in jemi_string(key)"; its body is not among
\* the sources, and is taken as
\*   jemi_append_object(object, jemi_list(jemi_string(key), value, NULL)).
jemi_object_add_keyval(object, key, value) ==
    /\ Running
    /\ object # NULL => s_jemi_pool[object].type = JEMI_OBJECT
    /\ LET k    == Payload(Heap, JEMI_STRING, key)
           pair == <<k.node, value>>
           h    == [k.h EXCEPT !.pool = ThreadArgs(k.h.pool, pair, 1)]
           name == "jemi_object_add_keyval"
           args == <<object, key, value>>
       IN IF object = NULL
          THEN Return(name, args, h, NULL, <<>>)
          ELSE LET r == append_children(h.pool, object, ArgAt(pair, 1)) IN
               IF r.hang
               THEN Stop(name, args, "hang")
               ELSE Return(name, args, [h EXCEPT !.pool = r.pool], object, <<>>)

\* ---------------------------------------------------------------- mutators

jemi_number_set(node, number) ==
    /\ Running
    /\ node # NULL => s_jemi_pool[node].type = JEMI_NUMBER
    /\ Return("jemi_number_set", <<node, number>>,
              IF node # NULL THEN [Heap EXCEPT !.pool[node].val = number] ELSE Heap,
              node, <<>>)

jemi_string_set(node, string) ==
    /\ Running
    /\ node # NULL => s_jemi_pool[node].type = JEMI_STRING
    /\ Return("jemi_string_set", <<node, string>>,
              IF node # NULL THEN [Heap EXCEPT !.pool[node].val = string] ELSE Heap,
              node, <<>>)

\* Mutant: the node is not retagged; a node made by jemi_bool(boolean) is
\* returned in its place.
jemi_bool_set_fresh(node, boolean) ==
    /\ Running
    /\ node # NULL => s_jemi_pool[node].type \in {JEMI_TRUE, JEMI_FALSE}
    /\ LET a == jemi_alloc(Heap, IF boolean THEN JEMI_TRUE ELSE JEMI_FALSE)
       IN Return("jemi_bool_set", <<node, IF boolean THEN 1 ELSE 0>>,
                 a.h, IF node # NULL THEN a.node ELSE NULL, <<>>)

jemi_bool_set(node, boolean) ==
    /\ Running
    /\ node # NULL => s_jemi_pool[node].type \in {JEMI_TRUE, JEMI_FALSE}
    /\ Return("jemi_bool_set", <<node, IF boolean THEN 1 ELSE 0>>,
              IF node # NULL
              THEN [Heap EXCEPT !.pool[node].type =
                                   IF boolean THEN JEMI_TRUE ELSE JEMI_FALSE]
              ELSE Heap,
              node, <<>>)

\* -------------------------------------------------------------------- copy

\* copy_node and jemi_copy on a heap: [h, node, fault, hang].  fault: a store
\* went through a NULL copy.  hang: with the pool exhausted the recursion into
\* node->children runs round a cycle and never returns; fuel bounds that walk.
RECURSIVE copy_node(_, _, _), CopyLoop(_, _, _, _, _, _)

\* Mutant: the copy of a container is shallow; it keeps the children of the
\* original (copy->children = node->children, no jemi_copy of them).
copy_node_shallow(h, node, fuel) ==
    IF node = NULL
    THEN [h |-> h, node |-> NULL, fault |-> FALSE, hang |-> FALSE]
    ELSE LET a == jemi_alloc(h, h.pool[node].type) IN
         IF a.node = NULL
         THEN [h |-> a.h, node |-> NULL, fault |-> FALSE, hang |-> FALSE]
         ELSE [h     |-> [a.h EXCEPT !.pool[a.node].val = a.h.pool[node].val],
               node  |-> a.node, fault |-> FALSE, hang |-> FALSE]

\* Mutant: only a string payload is copied; the copy of a number holds zero.
CopyPayload_string(h, copy, node) ==
    [h EXCEPT !.pool[copy].val =
        IF h.pool[node].type = JEMI_STRING THEN h.pool[node].val ELSE 0]

\* copy->string = node->string;  copy->number = node->number;
CopyPayload(h, copy, node) ==
    [h EXCEPT !.pool[copy].val = h.pool[node].val]

copy_node(h, node, fuel) ==
    IF node = NULL
    THEN [h |-> h, node |-> NULL, fault |-> FALSE, hang |-> FALSE]
    ELSE
      LET type == h.pool[node].type
          a    == jemi_alloc(h, type)
      IN
      IF type \in {JEMI_ARRAY, JEMI_OBJECT}
      THEN IF a.node = NULL
           THEN IF fuel = 0
                THEN [h |-> h, node |-> NULL, fault |-> FALSE, hang |-> TRUE]
                ELSE LET c == CopyLoop(a.h, a.h.pool[node].val, NULL, NULL,
                                       fuel - 1, FALSE)
                     IN [h |-> c.h, node |-> NULL,
                         fault |-> ~c.hang, hang |-> c.hang]
           ELSE LET c == CopyLoop(a.h, a.h.pool[node].val, NULL, NULL,
                                  fuel, FALSE)
                IN [h     |-> [c.h EXCEPT !.pool[a.node].val = c.node],
                    node  |-> a.node,
                    fault |-> c.fault, hang |-> c.hang]
      ELSE IF type \in {JEMI_STRING, JEMI_NUMBER}
      THEN IF a.node = NULL
           THEN [h |-> a.h, node |-> NULL, fault |-> TRUE, hang |-> FALSE]
           ELSE [h     |-> CopyPayload(a.h, a.node, node),
                 node  |-> a.node, fault |-> FALSE, hang |-> FALSE]
      ELSE [h |-> a.h, node |-> a.node, fault |-> FALSE, hang |-> FALSE]

\* The loop of jemi_copy: while ((node = copy_node(root)) != NULL) { ... }
CopyLoop(h, root, r2, prev, fuel, fault) ==
    LET c == copy_node(h, root, fuel) IN
    IF c.hang
    THEN [h |-> c.h, node |-> NULL, fault |-> fault \/ c.fault, hang |-> TRUE]
    ELSE IF c.node = NULL
    THEN [h |-> c.h, node |-> r2, fault |-> fault \/ c.fault, hang |-> FALSE]
    ELSE LET h2 == IF prev # NULL
                   THEN [c.h EXCEPT !.pool[prev].sibling = c.node]
                   ELSE c.h
         IN CopyLoop(h2, h2.pool[root].sibling,
                     IF r2 = NULL THEN c.node ELSE r2,
                     c.node, fuel, fault \/ c.fault)

copy(h, root) == CopyLoop(h, root, NULL, NULL, Len(h.pool) + 1, FALSE)

jemi_copy(root) ==
    /\ Running
    /\ LET r == copy(Heap, root) IN
       \/ /\ r.fault
          /\ Stop("jemi_copy", <<root>>, "fault")
       \/ /\ r.hang
          /\ Stop("jemi_copy", <<root>>, "hang")
       \/ /\ ~r.hang
          /\ Return("jemi_copy", <<root>>, r.h, r.node, <<>>)

\* -------------------------------------------------------------------- emit

NUL == "NUL"            \* the '\0' jemi_emit sends last
Diverge == "..."        \* stands for output that never ends

BufLen == 20            \* char buf[20] of the JEMI_NUMBER case

Digit(d) == <<"0", "1", "2", "3", "4", "5", "6", "7", "8", "9">>[d + 1]

RECURSIVE Digits(_)
Digits(n) == IF n < 10 THEN <<Digit(n)>>
             ELSE Digits(n \div 10) \o <<Digit(n % 10)>>

\* snprintf(buf, sizeof(buf), "%f", number) for an integer-valued number.
FormatF(number) ==
    LET full == (IF number < 0 THEN <<"-">> ELSE <<>>)
                \o Digits(IF number < 0 THEN -number ELSE number)
                \o <<".", "0", "0", "0", "0", "0", "0">>
    IN IF Len(full) > BufLen - 1 THEN SubSeq(full, 1, BufLen - 1) ELSE full

\* An int64_t payload is held as four 16-bit words in two's complement, most
\* significant first.
Base == 65536
Int64Max == <<Base \div 2 - 1, Base - 1, Base - 1, Base - 1>>
Int64Min == <<Base \div 2, 0, 0, 0>>

\* One step of the conversion: the quotient and remainder of u by ten.
RECURSIVE DivStep(_, _, _, _)
DivStep(u, i, rem, q) ==
    IF i > Len(u) THEN [q |-> q, r |-> rem]
    ELSE LET cur == rem * Base + u[i]
         IN DivStep(u, i + 1, cur % 10, Append(q, cur \div 10))

IsZero(u) == \A i \in 1..Len(u) : u[i] = 0

\* The decimal digits of an unsigned value, most significant first.
RECURSIVE UDigits(_)
UDigits(u) ==
    LET d == DivStep(u, 1, 0, <<>>) IN
    IF IsZero(d.q) THEN <<Digit(d.r)>> ELSE UDigits(d.q) \o <<Digit(d.r)>>

RECURSIVE IncAt(_, _)
IncAt(u, i) ==
    IF i = 0 THEN u
    ELSE IF u[i] = Base - 1 THEN IncAt([u EXCEPT ![i] = 0], i - 1)
    ELSE [u EXCEPT ![i] = u[i] + 1]

\* The magnitude of a negative value, as the conversion takes it: the two's
\* complement, read unsigned.
Negate(v) == IncAt([i \in 1..Len(v) |-> Base - 1 - v[i]], Len(v))

\* Mutant: the integer is formatted into the char buf[20] of the number case,
\* which holds 19 characters.
FormatD_buf(v) ==
    LET full == IF v[1] >= Base \div 2 THEN <<"-">> \o UDigits(Negate(v))
                                        ELSE UDigits(v)
    IN IF Len(full) > BufLen - 1 THEN SubSeq(full, 1, BufLen - 1) ELSE full

\* The integer case of the emitter (jemi.h 1.3.0; the spec: "format as a
\* minimal signed decimal and stream its characters"): a signed decimal
\* conversion of the 64-bit payload.
FormatD(v) ==
    IF v[1] >= Base \div 2 THEN <<"-">> \o UDigits(Negate(v)) ELSE UDigits(v)

\* emit_string: the characters of a null-terminated string.
emit_string(string) == StringTable[string]

\* The characters of one value; the text of a container's children is given.
ValueText(n, inner) ==
    CASE n.type = JEMI_OBJECT -> <<"{">> \o inner \o <<"}">>
      [] n.type = JEMI_ARRAY  -> <<"[">> \o inner \o <<"]">>
      [] n.type = JEMI_NUMBER -> FormatF(n.val)
      [] n.type = JEMI_INTEGER -> FormatD(n.val)
      [] n.type = JEMI_STRING -> <<"\"">> \o emit_string(n.val) \o <<"\"">>
      [] n.type = JEMI_TRUE   -> <<"t", "r", "u", "e">>
      [] n.type = JEMI_FALSE  -> <<"f", "a", "l", "s", "e">>
      [] n.type = JEMI_NULL   -> <<"n", "u", "l", "l">>

\* Mutant: the separator test is count >= 0, so a comma leads every chain.
RECURSIVE emit_aux_leading(_, _, _, _, _)
emit_aux_leading(pool, node, is_obj, count, fuel) ==
    IF node = NULL THEN <<>>
    ELSE IF fuel = 0 THEN <<Diverge>>
    ELSE
      LET n == pool[node]
          separator == IF is_obj /\ count % 2 = 1 THEN <<":">> ELSE <<",">>
          inner == IF n.type \in {JEMI_OBJECT, JEMI_ARRAY}
                   THEN emit_aux_leading(pool, n.val, n.type = JEMI_OBJECT, 0, fuel - 1)
                   ELSE <<>>
      IN separator \o ValueText(n, inner)
         \o emit_aux_leading(pool, n.sibling, is_obj, count + 1, fuel - 1)

\* Mutant: an object's children are walked with is_obj false.
RECURSIVE emit_aux_noobj(_, _, _, _, _)
emit_aux_noobj(pool, node, is_obj, count, fuel) ==
    IF node = NULL THEN <<>>
    ELSE IF fuel = 0 THEN <<Diverge>>
    ELSE
      LET n == pool[node]
          separator == IF is_obj /\ count % 2 = 1 THEN <<":">>
                       ELSE IF count > 0 THEN <<",">>
                       ELSE <<>>
          inner == IF n.type \in {JEMI_OBJECT, JEMI_ARRAY}
                   THEN emit_aux_noobj(pool, n.val, FALSE, 0, fuel - 1)
                   ELSE <<>>
      IN separator \o ValueText(n, inner)
         \o emit_aux_noobj(pool, n.sibling, is_obj, count + 1, fuel - 1)

\* Mutant: a NULL chain is written as the keyword null.
RECURSIVE emit_aux_null(_, _, _, _, _)
emit_aux_null(pool, node, is_obj, count, fuel) ==
    IF node = NULL THEN (IF count = 0 THEN <<"n", "u", "l", "l">> ELSE <<>>)
    ELSE IF fuel = 0 THEN <<Diverge>>
    ELSE
      LET n == pool[node]
          separator == IF is_obj /\ count % 2 = 1 THEN <<":">>
                       ELSE IF count > 0 THEN <<",">>
                       ELSE <<>>
          inner == IF n.type \in {JEMI_OBJECT, JEMI_ARRAY}
                   THEN emit_aux_null(pool, n.val, n.type = JEMI_OBJECT, 0, fuel - 1)
                   ELSE <<>>
      IN separator \o ValueText(n, inner)
         \o emit_aux_null(pool, n.sibling, is_obj, count + 1, fuel - 1)

\* Mutant: the children of an array are walked in the mode of the chain the
\* array is on (is_obj is handed down, not set to false).
RECURSIVE emit_aux_inherit(_, _, _, _, _)
emit_aux_inherit(pool, node, is_obj, count, fuel) ==
    IF node = NULL THEN <<>>
    ELSE IF fuel = 0 THEN <<Diverge>>
    ELSE
      LET n == pool[node]
          separator == IF is_obj /\ count % 2 = 1 THEN <<":">>
                       ELSE IF count > 0 THEN <<",">>
                       ELSE <<>>
          inner == IF n.type = JEMI_OBJECT
                   THEN emit_aux_inherit(pool, n.val, TRUE, 0, fuel - 1)
                   ELSE IF n.type = JEMI_ARRAY
                   THEN emit_aux_inherit(pool, n.val, is_obj, 0, fuel - 1)
                   ELSE <<>>
      IN separator \o ValueText(n, inner)
         \o emit_aux_inherit(pool, n.sibling, is_obj, count + 1, fuel - 1)

\* Mutant: the walk sends the terminator itself, at the end of every chain.
RECURSIVE emit_aux_nul(_, _, _, _, _)
emit_aux_nul(pool, node, is_obj, count, fuel) ==
    IF node = NULL THEN <<NUL>>
    ELSE IF fuel = 0 THEN <<Diverge>>
    ELSE
      LET n == pool[node]
          separator == IF is_obj /\ count % 2 = 1 THEN <<":">>
                       ELSE IF count > 0 THEN <<",">>
                       ELSE <<>>
          inner == IF n.type = JEMI_OBJECT
                   THEN emit_aux_nul(pool, n.val, TRUE, 0, fuel - 1)
                   ELSE IF n.type = JEMI_ARRAY
                   THEN emit_aux_nul(pool, n.val, FALSE, 0, fuel - 1)
                   ELSE <<>>
      IN separator \o ValueText(n, inner)
         \o emit_aux_nul(pool, n.sibling, is_obj, count + 1, fuel - 1)

\* Mutant: the walk does not advance (node = node->sibling is missing).
RECURSIVE emit_aux_stay(_, _, _, _, _)
emit_aux_stay(pool, node, is_obj, count, fuel) ==
    IF node = NULL THEN <<>>
    ELSE IF fuel = 0 THEN <<Diverge>>
    ELSE
      LET n == pool[node]
          separator == IF is_obj /\ count % 2 = 1 THEN <<":">>
                       ELSE IF count > 0 THEN <<",">>
                       ELSE <<>>
          inner == IF n.type = JEMI_OBJECT
                   THEN emit_aux_stay(pool, n.val, TRUE, 0, fuel - 1)
                   ELSE IF n.type = JEMI_ARRAY
                   THEN emit_aux_stay(pool, n.val, FALSE, 0, fuel - 1)
                   ELSE <<>>
      IN separator \o ValueText(n, inner)
         \o emit_aux_stay(pool, node, is_obj, count + 1, fuel - 1)

\* emit_aux: the characters written for the chain that starts at node.
\* fuel is the longest path an acyclic structure can have; when it runs out
\* the structure is cyclic and the walk never ends.
RECURSIVE emit_aux(_, _, _, _, _)
emit_aux(pool, node, is_obj, count, fuel) ==
    IF node = NULL THEN <<>>
    ELSE IF fuel = 0 THEN <<Diverge>>
    ELSE
      LET n == pool[node]
          separator == IF is_obj /\ count % 2 = 1 THEN <<":">>
                       ELSE IF count > 0 THEN <<",">>
                       ELSE <<>>
          inner == IF n.type = JEMI_OBJECT
                   THEN emit_aux(pool, n.val, TRUE, 0, fuel - 1)
                   ELSE IF n.type = JEMI_ARRAY
                   THEN emit_aux(pool, n.val, FALSE, 0, fuel - 1)
                   ELSE <<>>
      IN separator \o ValueText(n, inner)
         \o emit_aux(pool, n.sibling, is_obj, count + 1, fuel - 1)

\* What emit_aux(root, writer_fn, arg, false) writes.
Text(pool, root) == emit_aux(pool, root, FALSE, 0, Len(pool))

IsDiverge(ch) == ch = Diverge
Diverges(text) == SelectSeq(text, IsDiverge) # <<>>

\* Mutant: the emitter detaches the root from its siblings when it is done.
jemi_emit_unlink(root) ==
    /\ Running
    /\ LET text == Text(s_jemi_pool, root) IN
       IF Diverges(text)
       THEN Stop("jemi_emit", <<root>>, "hang")
       ELSE Return("jemi_emit", <<root>>,
                   IF root = NULL THEN Heap
                   ELSE [Heap EXCEPT !.pool[root].sibling = NULL],
                   NULL, text \o <<NUL>>)

jemi_emit(root) ==
    /\ Running
    /\ LET text == Text(s_jemi_pool, root) IN
       IF Diverges(text)
       THEN Stop("jemi_emit", <<root>>, "hang")
       ELSE Return("jemi_emit", <<root>>, Heap, NULL, text \o <<NUL>>)

\* ------------------------------------------------------------------ system

\* All the calls of the interface.
Calls == {"jemi_init", "jemi_reset", "jemi_number", "jemi_string", "jemi_true",
          "jemi_false", "jemi_null", "jemi_bool", "jemi_available",
          "jemi_array", "jemi_object", "jemi_list",
          "jemi_append_array", "jemi_append_object", "jemi_append_list",
          "jemi_number_set", "jemi_string_set", "jemi_bool_set",
          "jemi_copy", "jemi_emit"}

\* The state jemi_init(pool, size) leaves, for a caller that logs the calls in w
\* and makes b more calls.
InitWith(sizes, w, b) ==
    /\ s_jemi_pool_size \in sizes
    /\ s_jemi_pool = ResetHeap(s_jemi_pool_size).pool
    /\ s_jemi_freelist = ResetHeap(s_jemi_pool_size).freelist
    /\ issued = <<>>
    /\ status = "ok"
    /\ op = ""
    /\ arg = <<>>
    /\ ret = NULL
    /\ out = <<>>
    /\ watch = w
    /\ budget = b

\* Any caller: every call, on any nodes it holds, in any order.
Init == InitWith(0..MaxPool, {}, -1)

\* Every call but jemi_init, on any nodes the caller holds.
AnyCall ==
    \/ jemi_reset
    \/ \E v \in Numbers : jemi_number(v)
    \/ \E s \in Strings : jemi_string(s)
    \/ jemi_true
    \/ jemi_false
    \/ jemi_null
    \/ \E b \in BOOLEAN : jemi_bool(b)
    \/ jemi_available
    \/ \E args \in ArgLists : jemi_array(args)
    \/ \E args \in ArgLists : jemi_object(args)
    \/ \E args \in ArgLists : jemi_list(args)
    \/ \E array, items \in Refs : jemi_append_array(array, items)
    \/ \E object, items \in Refs : jemi_append_object(object, items)
    \/ \E list, items \in Refs : jemi_append_list(list, items)
    \/ \E node \in Refs, v \in Numbers : jemi_number_set(node, v)
    \/ \E node \in Refs, s \in Strings : jemi_string_set(node, s)
    \/ \E node \in Refs, b \in BOOLEAN : jemi_bool_set(node, b)
    \/ \E root \in Refs : jemi_copy(root)
    \/ \E root \in Refs : jemi_emit(root)

Next ==
    \/ \E n \in 0..MaxPool : jemi_init(n)
    \/ AnyCall

Spec == Init /\ [][Next]_vars

\* Any caller, with jemi_reset logged.
InitReset == InitWith(0..MaxPool, {"jemi_reset"}, -1)

SpecReset == InitReset /\ [][Next]_vars

\* A caller that allocates scalars, asks what is available and resets, with
\* every call logged.
InitArena == InitWith(0..MaxArena, Calls, -1)

NextArena ==
    \/ \E n \in 0..MaxArena : jemi_init(n)
    \/ jemi_reset
    \/ \E v \in Numbers : jemi_number(v)
    \/ \E s \in Strings : jemi_string(s)
    \/ jemi_true
    \/ jemi_false
    \/ jemi_null
    \/ \E b \in BOOLEAN : jemi_bool(b)
    \/ jemi_available

SpecArena == InitArena /\ [][NextArena]_vars

\* --------------------------------------------------------------- documents

\* A document as the caller writes it, top down, in one expression such as
\* jemi_array(jemi_true(), jemi_string("k"), NULL): t is the constructor, v the
\* payload of a number or string, kids the elements of a container or list.
Term(t, v, kids) == [t |-> t, v |-> v, kids |-> kids]

JEMI_LIST == "LIST"     \* jemi_list: a chain with no container

Leaves == {Term(JEMI_TRUE, 0, <<>>), Term(JEMI_NUMBER, 255, <<>>),
           Term(JEMI_STRING, 1, <<>>)}

Inner == {Term(JEMI_ARRAY, 0, <<Term(JEMI_FALSE, 0, <<>>), Term(JEMI_NUMBER, 0, <<>>)>>),
          Term(JEMI_OBJECT, 0, <<Term(JEMI_STRING, 2, <<>>), Term(JEMI_NULL, 0, <<>>)>>)}

\* An array, an object or a list of up to width elements.
DocsOf(width) ==
    {Term(t, 0, kids) :
       t \in {JEMI_ARRAY, JEMI_OBJECT, JEMI_LIST},
       kids \in UNION {[1..k -> Leaves \cup Inner] : k \in 0..width}}

Docs == DocsOf(MaxKids)

JEMI_PARTS == "PARTS"   \* separate statements: the parts are not linked

\* What the caller builds before it appends: an empty array, two containers
\* with children, a list of two.
Parts == {Term(JEMI_ARRAY, 0, <<>>),
          Term(JEMI_LIST, 0, <<Term(JEMI_STRING, 1, <<>>), Term(JEMI_NUMBER, 255, <<>>)>>)}
         \cup Inner

PartsDocs == {Term(JEMI_PARTS, 0, kids) :
                kids \in UNION {[1..k -> Parts] : k \in 0..MaxParts}}

RECURSIVE TermSize(_), SumSizes(_, _)
TermSize(term) == (IF term.t \in {JEMI_LIST, JEMI_PARTS} THEN 0 ELSE 1)
                  + SumSizes(term.kids, 1)
SumSizes(kids, i) ==
    IF i > Len(kids) THEN 0 ELSE TermSize(kids[i]) + SumSizes(kids, i + 1)

\* The calls of the expression, arguments first (left to right), then the
\* constructor: [h, node], node being what the expression returns.
RECURSIVE Build(_, _), BuildKids(_, _, _, _)
Build(h, term) ==
    IF term.t \in {JEMI_NUMBER, JEMI_STRING}
    THEN Payload(h, term.t, term.v)
    ELSE IF term.t \in {JEMI_TRUE, JEMI_FALSE, JEMI_NULL}
    THEN jemi_alloc(h, term.t)
    ELSE LET k == BuildKids(h, term.kids, 1, <<>>) IN
         IF term.t = JEMI_PARTS
         THEN [h |-> k.h, node |-> NULL]
         ELSE IF term.t = JEMI_LIST
         THEN [h    |-> [k.h EXCEPT !.pool = ThreadArgs(k.h.pool, k.nodes, 1)],
               node |-> ArgAt(k.nodes, 1)]
         ELSE LET c == Container(k.h, term.t, k.nodes)
              IN [h |-> c.h, node |-> c.node]

BuildKids(h, kids, i, nodes) ==
    IF i > Len(kids) THEN [h |-> h, nodes |-> nodes]
    ELSE LET b == Build(h, kids[i])
         IN BuildKids(b.h, kids, i + 1, Append(nodes, b.node))

\* The state after jemi_init with size slots and the build of doc; the log
\* holds the root the build returned.
InitDoc(doc, size, w, b) ==
    LET r == Build(ResetHeap(size), doc) IN
    /\ s_jemi_pool_size = size
    /\ s_jemi_pool = r.h.pool
    /\ s_jemi_freelist = r.h.freelist
    /\ issued = r.h.issued
    /\ status = "ok"
    /\ op = "build"
    /\ arg = <<>>
    /\ ret = r.node
    /\ out = <<>>
    /\ watch = w
    /\ budget = b

\* A caller that builds one document and emits it, or any part of it.
InitEmit == \E doc \in Docs : InitDoc(doc, TermSize(doc), {"jemi_emit"}, -1)

NextEmit == \E root \in Refs : jemi_emit(root)

SpecEmit == InitEmit /\ [][NextEmit]_vars

\* The nodes nothing links to: the head of every list or tree the caller
\* holds that is not yet part of another.
Roots ==
    {node \in Allocated :
       \A other \in Allocated :
          /\ s_jemi_pool[other].sibling # node
          /\ s_jemi_pool[other].type \in {JEMI_ARRAY, JEMI_OBJECT}
               => s_jemi_pool[other].val # node}

AppendCalls == {"jemi_append_array", "jemi_append_object", "jemi_append_list"}

\* A caller that builds up to MaxParts parts and then appends unlinked parts
\* (or NULL) to any node it holds, the part itself included.
InitAppend ==
    \E doc \in PartsDocs : InitDoc(doc, TermSize(doc), AppendCalls, MaxAppends)

NextAppend ==
    \/ \E array \in Refs, items \in Roots \cup {NULL} : jemi_append_array(array, items)
    \/ \E object \in Refs, items \in Roots \cup {NULL} : jemi_append_object(object, items)
    \/ \E list \in Refs, items \in Roots \cup {NULL} : jemi_append_list(list, items)

SpecAppend == InitAppend /\ [][NextAppend]_vars

\* A caller that builds one document in a pool with some slots to spare, or
\* with room for a second copy of it, and copies it or any part of it.
InitCopy ==
    \E doc \in DocsOf(MaxCopyKids) :
       \E size \in {TermSize(doc) + k : k \in 0..MaxSpare} \cup {2 * TermSize(doc)} :
          InitDoc(doc, size, {"jemi_copy"}, MaxCopies)

NextCopy == \E root \in Refs : jemi_copy(root)

SpecCopy == InitCopy /\ [][NextCopy]_vars

SetCalls == {"jemi_number_set", "jemi_string_set", "jemi_bool_set"}

\* A caller that builds one document in a pool with room for two, takes
\* jemi_copy of it, and then sets leaves of either with the mutators.
InitSet ==
    \E doc \in DocsOf(MaxCopyKids) :
       LET size == 2 * TermSize(doc)
           b    == Build(ResetHeap(size), doc)
           c    == copy(b.h, b.node)
       IN /\ s_jemi_pool_size = size
          /\ s_jemi_pool = c.h.pool
          /\ s_jemi_freelist = c.h.freelist
          /\ issued = c.h.issued
          /\ status = "ok"
          /\ op = "jemi_copy"
          /\ arg = <<b.node>>
          /\ ret = c.node
          /\ out = <<>>
          /\ watch = SetCalls
          /\ budget = MaxSets

NextSet ==
    \/ \E node \in Refs, v \in Numbers : jemi_number_set(node, v)
    \/ \E node \in Refs, s \in Strings : jemi_string_set(node, s)
    \/ \E node \in Refs, b \in BOOLEAN : jemi_bool_set(node, b)

SpecSet == InitSet /\ [][NextSet]_vars

\* Under SpecSet the build issued the first half of the pool and jemi_copy the
\* rest, the node it returned first.
Original == {issued[i] : i \in 1..(s_jemi_pool_size \div 2)}

TheCopy == IF Len(issued) > s_jemi_pool_size \div 2
           THEN issued[s_jemi_pool_size \div 2 + 1]
           ELSE NULL

\* The template and the target of the test: jemi_list(name = jemi_string(..),
\* jemi_array(red = jemi_number(..), grn = jemi_number(..), NULL), NULL) and
\* jemi_object(NULL).
TemplateDoc ==
    Term(JEMI_PARTS, 0,
         <<Term(JEMI_LIST, 0,
                <<Term(JEMI_STRING, 1, <<>>),
                  Term(JEMI_ARRAY, 0, <<Term(JEMI_NUMBER, 0, <<>>),
                                        Term(JEMI_NUMBER, 0, <<>>)>>)>>),
           Term(JEMI_OBJECT, 0, <<>>)>>)

TemplateSize == TermSize(TemplateDoc.kids[1])

\* jemi_append_object(object, jemi_copy(root)) as the caller writes it.
AppendCopy(object, root) ==
    /\ Running
    /\ LET r == copy(Heap, root) IN
       \/ /\ r.fault
          /\ Stop("jemi_copy", <<root>>, "fault")
       \/ /\ r.hang
          /\ Stop("jemi_copy", <<root>>, "hang")
       \/ /\ ~r.hang
          /\ AppendChildrenIn(r.h, "jemi_append_object", object, r.node)

\* Under SpecTemplate the build issued the template first (its name, the two
\* numbers, the array) and the target after it.
Template == issued[1]
TemplateNodes == {issued[i] : i \in 1..TemplateSize}
Target == issued[TemplateSize + 1]

\* A caller that builds the template and the target in a pool with room for up
\* to MaxCycles copies, and then sets the template's leaves and appends copies
\* of the template to the target, in any order.
InitTemplate ==
    \E spare \in 0..(MaxCycles * TemplateSize) :
       InitDoc(TemplateDoc, TermSize(TemplateDoc) + spare,
               SetCalls \cup {"jemi_copy", "jemi_append_object"}, -1)

NextTemplate ==
    \/ \E node \in TemplateNodes, v \in Numbers : jemi_number_set(node, v)
    \/ \E node \in TemplateNodes, s \in Strings : jemi_string_set(node, s)
    \/ AppendCopy(Target, Template)

SpecTemplate == InitTemplate /\ [][NextTemplate]_vars

\* The elements the caller built, in the order it built them.
IsRoot(node) == node \in Roots
Elems == SelectSeq(issued, IsRoot)

\* root = jemi_array(NULL) or jemi_object(NULL), then one append per element.
RECURSIVE AppendEach(_, _, _, _)
AppendEach(pool, container, elems, i) ==
    IF i > Len(elems) THEN pool
    ELSE AppendEach(append_children(pool, container, elems[i]).pool,
                    container, elems, i + 1)

BottomUpEach(type) ==
    /\ Running
    /\ LET c == Container(Heap, type, <<>>)
           name == IF type = JEMI_ARRAY THEN "jemi_append_array"
                                        ELSE "jemi_append_object"
           ctor == IF type = JEMI_ARRAY THEN "jemi_array" ELSE "jemi_object"
       IN /\ Elems # <<>>
          /\ IF c.fault
             THEN \/ Stop(ctor, <<>>, "fault")
                  \/ Return(name, <<NULL, Elems[Len(Elems)]>>, c.h, NULL, <<>>)
             ELSE Return(name, <<c.node, Elems[Len(Elems)]>>,
                         [c.h EXCEPT !.pool = AppendEach(c.h.pool, c.node, Elems, 1)],
                         c.node, <<>>)

\* root = jemi_array(NULL) or jemi_object(NULL), then one append of
\* jemi_list(e1, ..., en, NULL).
BottomUpList(type) ==
    /\ Running
    /\ LET c == Container(Heap, type, <<>>)
           list == ThreadArgs(c.h.pool, Elems, 1)
           name == IF type = JEMI_ARRAY THEN "jemi_append_array"
                                        ELSE "jemi_append_object"
           ctor == IF type = JEMI_ARRAY THEN "jemi_array" ELSE "jemi_object"
       IN IF c.fault
          THEN \/ Stop(ctor, <<>>, "fault")
               \/ Return(name, <<NULL, ArgAt(Elems, 1)>>,
                         [c.h EXCEPT !.pool = list], NULL, <<>>)
          ELSE Return(name, <<c.node, ArgAt(Elems, 1)>>,
                      [c.h EXCEPT !.pool =
                          append_children(list, c.node, ArgAt(Elems, 1)).pool],
                      c.node, <<>>)

\* A caller that builds up to MaxElems elements and then assembles them into
\* an array or an object, top-down or bottom-up, in a pool that has a slot
\* left for the container or has none.
InitAssemble ==
    \E doc \in {Term(JEMI_PARTS, 0, kids) :
                   kids \in UNION {[1..k -> Leaves \cup Inner] : k \in 0..MaxElems}},
       spare \in {0, 1} :
       InitDoc(doc, TermSize(doc) + spare,
               {"jemi_array", "jemi_object", "jemi_append_array", "jemi_append_object"},
               1)

NextAssemble ==
    \/ jemi_array(Elems)
    \/ jemi_object(Elems)
    \/ \E type \in {JEMI_ARRAY, JEMI_OBJECT} : BottomUpEach(type)
    \/ \E type \in {JEMI_ARRAY, JEMI_OBJECT} : BottomUpList(type)

SpecAssemble == InitAssemble /\ [][NextAssemble]_vars

VariadicCalls == {"jemi_array", "jemi_object", "jemi_list"}

\* What a caller passes whose allocations may have failed: nodes not yet
\* linked, each at most once, and NULL for an allocation that failed, before
\* the NULL that ends the list.
PassLists ==
    LET held == Roots \cup {NULL} IN
    {args \in UNION {[1..k -> held] : k \in 0..(MaxPassed + 1)} :
       \A i, j \in 1..Len(args) : (i # j /\ args[i] # NULL) => args[i] # args[j]}

\* A caller that builds up to MaxPassed elements, some of them containers with
\* children, and then makes one variadic call or one append with them.
InitVariadic ==
    \E doc \in {Term(JEMI_PARTS, 0, kids) :
                   kids \in UNION {[1..k -> Leaves \cup Inner] : k \in 0..MaxPassed}} :
       InitDoc(doc, TermSize(doc) + 1, VariadicCalls \cup AppendCalls, 1)

NextVariadic ==
    \/ \E args \in PassLists : jemi_array(args)
    \/ \E args \in PassLists : jemi_object(args)
    \/ \E args \in PassLists : jemi_list(args)
    \/ \E array \in Refs, items \in Roots \cup {NULL} : jemi_append_array(array, items)
    \/ \E object \in Refs, items \in Roots \cup {NULL} : jemi_append_object(object, items)
    \/ \E list \in Refs, items \in Roots \cup {NULL} : jemi_append_list(list, items)

SpecVariadic == InitVariadic /\ [][NextVariadic]_vars

\* An object, empty or holding one pair, and two values for it.
KeyvalDocs ==
    {Term(JEMI_PARTS, 0, <<object, value, Term(JEMI_TRUE, 0, <<>>)>>) :
       object \in {Term(JEMI_OBJECT, 0, <<>>),
                   Term(JEMI_OBJECT, 0, <<Term(JEMI_STRING, 2, <<>>),
                                          Term(JEMI_NULL, 0, <<>>)>>)},
       value \in Leaves \cup Inner}

\* A caller that builds an object and two values, in a pool with up to
\* MaxPairs slots left for keys, and then adds up to MaxPairs key/value pairs.
InitKeyval ==
    \E doc \in KeyvalDocs, spare \in 0..MaxPairs :
       InitDoc(doc, TermSize(doc) + spare, {"jemi_object_add_keyval"}, MaxPairs)

NextKeyval ==
    \E object \in Refs, key \in Strings, value \in Roots \cup {NULL} :
       jemi_object_add_keyval(object, key, value)

SpecKeyval == InitKeyval /\ [][NextKeyval]_vars

\* The int64_t values the caller passes: 0, 1, -1, 10, -10, 98765, 2^16, 2^32,
\* 10^18, INT64_MIN + 1, and the two boundaries.
Int64Samples ==
    {<<0, 0, 0, 0>>,
     <<0, 0, 0, 1>>,
     <<65535, 65535, 65535, 65535>>,
     <<0, 0, 0, 10>>,
     <<65535, 65535, 65535, 65526>>,
     <<0, 0, 1, 33229>>,
     <<0, 0, 1, 0>>,
     <<0, 1, 0, 0>>,
     <<3552, 46771, 42852, 0>>,
     <<32768, 0, 0, 1>>,
     Int64Max, Int64Min}

\* A caller that makes integer nodes and emits them.
InitInteger == InitWith(1..MaxPool, {"jemi_integer", "jemi_emit"}, -1)

NextInteger ==
    \/ \E v \in Int64Samples : jemi_integer(v)
    \/ \E root \in Refs : jemi_emit(root)
    \/ jemi_reset

SpecInteger == InitInteger /\ [][NextInteger]_vars

\* n scalar elements: a string, true, a string, ...
Fill(n) == [i \in 1..n |-> IF i % 2 = 1 THEN Term(JEMI_STRING, 1, <<>>)
                                        ELSE Term(JEMI_TRUE, 0, <<>>)]

\* Containers three deep, as in root = jemi_object(jemi_string("colors"),
\* jemi_object(jemi_string("yellow"), jemi_array(...), ...), NULL): the outer
\* one holds the middle one after `at` scalars and before one more, the middle
\* one holds the inner one after k scalars and before one more, and the inner
\* one holds n scalars.
NestedDocs ==
    {Term(outer, 0,
          Fill(at) \o <<Term(middle, 0,
                             Fill(k) \o <<Term(inner, 0, Fill(n))>> \o Fill(1))>>
                   \o Fill(1)) :
       outer \in {JEMI_ARRAY, JEMI_OBJECT, JEMI_LIST},
       middle \in {JEMI_ARRAY, JEMI_OBJECT},
       inner \in {JEMI_ARRAY, JEMI_OBJECT},
       at \in 0..2, k \in 0..MaxNest, n \in 0..MaxNest}

\* A caller that builds one nested document and emits it, or any part of it.
InitNested == \E doc \in NestedDocs : InitDoc(doc, TermSize(doc), {"jemi_emit"}, -1)

SpecNested == InitNested /\ [][NextEmit]_vars

\* Two containers a and b, side by side in a list or an array, and a part y
\* kept apart: a holds up to two children, the last of them x, b holds none or
\* one.
ShareDocs ==
    {Term(JEMI_PARTS, 0,
          <<Term(outer, 0, <<Term(ta, 0, Fill(na) \o <<x>>), Term(tb, 0, Fill(nb))>>),
            y>>) :
       outer \in {JEMI_LIST, JEMI_ARRAY},
       ta \in {JEMI_ARRAY, JEMI_OBJECT}, na \in 0..1,
       tb \in {JEMI_ARRAY, JEMI_OBJECT}, nb \in 0..1,
       x \in Leaves,
       y \in {Term(JEMI_NULL, 0, <<>>),
               Term(JEMI_LIST, 0, <<Term(JEMI_STRING, 2, <<>>), Term(JEMI_FALSE, 0, <<>>)>>)}}

\* A caller that builds a, b and y, appends x, the last child of a, to b as
\* well (jemi_append_array(b, x) or jemi_append_object(b, x)), and then makes
\* up to MaxShareCalls calls: a copy, a set or an append of a part not yet
\* linked.  The build issues the children of a first, x the last of them, then
\* a, then the children of b, then b.
InitShare ==
    \E doc \in ShareDocs :
       LET size == 2 * TermSize(doc) + 1
           b    == Build(ResetHeap(size), doc)
           ta   == doc.kids[1].kids[1]
           tb   == doc.kids[1].kids[2]
           x    == b.h.issued[Len(ta.kids)]
           cb   == b.h.issued[TermSize(ta) + TermSize(tb)]
           r    == append_children(b.h.pool, cb, x)
       IN /\ s_jemi_pool_size = size
          /\ s_jemi_pool = r.pool
          /\ s_jemi_freelist = b.h.freelist
          /\ issued = b.h.issued
          /\ status = "ok"
          /\ op = IF b.h.pool[cb].type = JEMI_ARRAY THEN "jemi_append_array"
                                                   ELSE "jemi_append_object"
          /\ arg = <<cb, x>>
          /\ ret = cb
          /\ out = <<>>
          /\ watch = SetCalls \cup {"jemi_copy", "jemi_append_array", "jemi_append_object"}
          /\ budget = MaxShareCalls

NextShare ==
    \/ \E root \in Refs : jemi_copy(root)
    \/ \E node \in Refs, v \in Numbers : jemi_number_set(node, v)
    \/ \E node \in Refs, s \in Strings : jemi_string_set(node, s)
    \/ \E node \in Refs, b \in BOOLEAN : jemi_bool_set(node, b)
    \/ \E array \in Refs, items \in Roots \cup {NULL} : jemi_append_array(array, items)
    \/ \E object \in Refs, items \in Roots \cup {NULL} : jemi_append_object(object, items)

SpecShare == InitShare /\ [][NextShare]_vars

\* The calls that walk a chain to its end.
WalkCalls == AppendCalls \cup {"jemi_copy", "jemi_emit", "jemi_available"}

\* A container, empty or with two children, and beside it a scalar or a list
\* of two.
WalkDocs ==
    {Term(JEMI_PARTS, 0, <<p, q>>) :
       p \in {Term(JEMI_ARRAY, 0, <<>>),
               Term(JEMI_OBJECT, 0, <<Term(JEMI_STRING, 2, <<>>), Term(JEMI_NULL, 0, <<>>)>>)},
       q \in {Term(JEMI_TRUE, 0, <<>>),
               Term(JEMI_LIST, 0, <<Term(JEMI_STRING, 1, <<>>), Term(JEMI_NUMBER, 255, <<>>)>>)}}

\* A caller that builds two parts in a pool with room for a copy of both and
\* then makes up to MaxWalks calls: it appends any node it holds to any other,
\* or to itself, and copies, emits and counts.
InitWalk ==
    \E doc \in WalkDocs : InitDoc(doc, 2 * TermSize(doc), WalkCalls, MaxWalks)

NextWalk ==
    \/ \E array, items \in Refs : jemi_append_array(array, items)
    \/ \E object, items \in Refs : jemi_append_object(object, items)
    \/ \E list, items \in Refs : jemi_append_list(list, items)
    \/ \E root \in Refs : jemi_copy(root)
    \/ \E root \in Refs : jemi_emit(root)
    \/ jemi_available

SpecWalk == InitWalk /\ [][NextWalk]_vars

\* A caller that builds up to MaxParts parts, lists of two among them, in a
\* pool with a slot left for a container, and then passes heads of what it
\* built to one variadic call.
InitRelink ==
    \E doc \in PartsDocs : InitDoc(doc, TermSize(doc) + 1, VariadicCalls, 1)

NextRelink ==
    \/ \E args \in PassLists : jemi_array(args)
    \/ \E args \in PassLists : jemi_object(args)
    \/ \E args \in PassLists : jemi_list(args)

SpecRelink == InitRelink /\ [][NextRelink]_vars

\* ------------------------------------------------------------ observations

Range(seq) == {seq[i] : i \in 1..Len(seq)}

NoRepeat(seq) == \A i, j \in 1..Len(seq) : i # j => seq[i] # seq[j]

\* The nodes of the chain from node along the sibling links; -1 ends the
\* sequence when the chain has more than fuel nodes, so is cyclic.
RECURSIVE Chain(_, _, _)
Chain(pool, node, fuel) ==
    IF node = NULL THEN <<>>
    ELSE IF fuel = 0 THEN <<-1>>
    ELSE <<node>> \o Chain(pool, pool[node].sibling, fuel - 1)

FreeList == Chain(s_jemi_pool, s_jemi_freelist, s_jemi_pool_size)

AvailableNow == Available(Heap)

ScalarCalls == {"jemi_number", "jemi_string", "jemi_true", "jemi_false",
                "jemi_null", "jemi_bool"}

IsContainer(node) == s_jemi_pool[node].type \in {JEMI_ARRAY, JEMI_OBJECT}

\* ------------------------------------------------------------------ claims

\* C1: after jemi_init(pool, N) and k successful allocations with no reset in
\* between, jemi_available() returns N - k: N right after init, 0 after N.
C1_AvailableCountsFree ==
    op = "jemi_available" => ret = s_jemi_pool_size - Len(issued)

\* C1 witness: jemi_available called with some, but not all, slots allocated.
C1_Witness ==
    /\ op = "jemi_available"
    /\ s_jemi_pool_size >= 3
    /\ Len(issued) = 2
    /\ ret = s_jemi_pool_size - 2

\* C2: with the freelist empty, a scalar constructor returns NULL, the pool is
\* left as it was (every tag, sibling link and payload), and jemi_available()
\* is still 0.
C2_ExhaustedScalarIsNull ==
    [][(s_jemi_freelist = NULL /\ op' \in ScalarCalls)
         => /\ status' = "ok"
            /\ ret' = NULL
            /\ s_jemi_pool' = s_jemi_pool
            /\ AvailableNow' = 0]_vars

\* C2 witness: a scalar constructor returned NULL on a pool whose slots are all
\* allocated.
C2_Witness ==
    /\ op \in ScalarCalls
    /\ ret = NULL
    /\ s_jemi_pool_size >= 2
    /\ Len(issued) = s_jemi_pool_size

\* C3: after jemi_reset(), jemi_available() is the capacity given to jemi_init,
\* whatever calls came before.
C3_ResetRestoresCapacity ==
    op = "jemi_reset" => AvailableNow = s_jemi_pool_size

\* C3 witness: a reset of an exhausted pool.
C3_Witness ==
    /\ op = "jemi_reset"
    /\ s_jemi_pool_size >= 2
    /\ arg = <<s_jemi_pool_size>>
    /\ AvailableNow = s_jemi_pool_size

\* C4: from init or reset, N allocations succeed and return N distinct slots,
\* together all the slots of the pool; only the next one fails.
C4_EverySlotOnce ==
    /\ NoRepeat(issued)
    /\ Allocated \subseteq Slots
    /\ (op \in ScalarCalls /\ ret # NULL) => ret = issued[Len(issued)]
    /\ (op \in ScalarCalls /\ ret = NULL) => Allocated = Slots

\* C4 witness: the allocation after the N-th failed, with every slot issued.
C4_Witness ==
    /\ op \in ScalarCalls
    /\ ret = NULL
    /\ s_jemi_pool_size = 3
    /\ Len(issued) = 3
    /\ Allocated = Slots

Own(pool, node) == Text([pool EXCEPT ![node].sibling = NULL], node)

\* The texts of the nodes of a chain, each without its siblings.
Owns(pool, chain) == [i \in 1..Len(chain) |-> Own(pool, chain[i])]

\* texts[1] sep texts[2] sep ... texts[n]
RECURSIVE Join(_, _)
Join(texts, sep) ==
    IF Len(texts) = 0 THEN <<>>
    ELSE IF Len(texts) = 1 THEN texts[1]
    ELSE texts[1] \o sep \o Join(Tail(texts), sep)

ChainOf(node) == Chain(s_jemi_pool, node, s_jemi_pool_size)

\* C6: an array with n >= 1 children is written as '[', the children in chain
\* order with one ',' between neighbours and none before the first or after the
\* last, then ']'; a top-level list of n nodes the same way without brackets.
C6_ArrayCommas ==
    op = "jemi_emit" =>
      LET top == ChainOf(arg[1]) IN
      /\ out = Join(Owns(s_jemi_pool, top), <<",">>) \o <<NUL>>
      /\ \A i \in 1..Len(top) :
           LET node == s_jemi_pool[top[i]] IN
           (node.type = JEMI_ARRAY /\ node.val # NULL)
             => Own(s_jemi_pool, top[i]) =
                  <<"[">> \o Join(Owns(s_jemi_pool, ChainOf(node.val)), <<",">>)
                         \o <<"]">>

\* C6 witness: the emitted root is an array of three or more children, one of
\* them a container.
C6_Witness ==
    /\ op = "jemi_emit"
    /\ arg[1] # NULL
    /\ s_jemi_pool[arg[1]].type = JEMI_ARRAY
    /\ Len(ChainOf(s_jemi_pool[arg[1]].val)) >= 3
    /\ \E kid \in Range(ChainOf(s_jemi_pool[arg[1]].val)) : IsContainer(kid)

\* The text of key:value pairs 1..m of a chain of 2m nodes.
PairTexts(pool, chain) ==
    [j \in 1..(Len(chain) \div 2) |->
       Own(pool, chain[2 * j - 1]) \o <<":">> \o Own(pool, chain[2 * j])]

\* C7: an object whose children chain has even length 2m is written as '{',
\* m key:value pairs with m - 1 commas between them, '}': ':' before every odd
\* position, ',' before every even position but the first, nothing trailing.
C7_ObjectPairs ==
    (op = "jemi_emit" /\ arg[1] # NULL) =>
      LET root == s_jemi_pool[arg[1]]
          kids == ChainOf(root.val)
      IN (root.type = JEMI_OBJECT /\ root.sibling = NULL /\ Len(kids) % 2 = 0)
           => out = <<"{">> \o Join(PairTexts(s_jemi_pool, kids), <<",">>)
                           \o <<"}", NUL>>

\* C7 witness: the emitted root is an object of two pairs.
C7_Witness ==
    /\ op = "jemi_emit"
    /\ arg[1] # NULL
    /\ s_jemi_pool[arg[1]].type = JEMI_OBJECT
    /\ s_jemi_pool[arg[1]].sibling = NULL
    /\ Len(ChainOf(s_jemi_pool[arg[1]].val)) = 4
    /\ Len(out) > 12

\* C8: an empty array is written as [], an empty object as {}, and an empty
\* list (a NULL root) as no character of JSON at all.
C8_EmptyShapes ==
    op = "jemi_emit" =>
      /\ arg[1] = NULL => out = <<NUL>>
      /\ \A t \in {JEMI_ARRAY, JEMI_OBJECT} :
           (/\ arg[1] # NULL
            /\ s_jemi_pool[arg[1]].type = t
            /\ s_jemi_pool[arg[1]].val = NULL
            /\ s_jemi_pool[arg[1]].sibling = NULL)
             => out = IF t = JEMI_ARRAY THEN <<"[", "]", NUL>>
                                        ELSE <<"{", "}", NUL>>

\* C8 witness: the empty array jemi_array(NULL) was emitted on its own.
C8_Witness ==
    /\ op = "jemi_emit"
    /\ arg[1] # NULL
    /\ s_jemi_pool_size = 1
    /\ s_jemi_pool[arg[1]].type = JEMI_ARRAY
    /\ s_jemi_pool[arg[1]].val = NULL
    /\ out = <<"[", "]", NUL>>

\* texts[1] : texts[2] , texts[3] : texts[4] , ...
RECURSIVE ObjectJoin(_, _)
ObjectJoin(texts, i) ==
    IF i > Len(texts) THEN <<>>
    ELSE (IF i = 1 THEN <<>> ELSE IF i % 2 = 0 THEN <<":">> ELSE <<",">>)
         \o texts[i] \o ObjectJoin(texts, i + 1)

Acyclic(chain) == -1 \notin Range(chain)

\* The chain an append call extends, in pool: the list, or the children of the
\* container.
Destination(pool, call, dest) ==
    IF dest = NULL THEN <<>>
    ELSE IF call = "jemi_append_list"
    THEN Chain(pool, dest, Len(pool))
    ELSE Chain(pool, pool[dest].val, Len(pool))

\* An append call returned and left the destination chain as it was before,
\* followed by the chain of the appended items, and the emitter writes the
\* chain in that order.
AppendedInOrder(call, dest, items, result) ==
    LET before == Destination(s_jemi_pool, call, dest)
        added  == Chain(s_jemi_pool, items, s_jemi_pool_size)
        after  == IF call = "jemi_append_list"
                  THEN Chain(s_jemi_pool', result, s_jemi_pool_size)
                  ELSE Destination(s_jemi_pool', call, dest)
        head   == IF call = "jemi_append_list" THEN result ELSE dest
    IN /\ Acyclic(after)
       /\ after = before \o added
       /\ (head # NULL /\ ~Diverges(Text(s_jemi_pool', head)))
            => LET texts == Owns(s_jemi_pool', after) IN
               CASE call = "jemi_append_list" ->
                      Text(s_jemi_pool', head) = Join(texts, <<",">>)
                 [] call = "jemi_append_array" ->
                      Own(s_jemi_pool', head) = <<"[">> \o Join(texts, <<",">>) \o <<"]">>
                 [] call = "jemi_append_object" ->
                      Own(s_jemi_pool', head) = <<"{">> \o ObjectJoin(texts, 1) \o <<"}">>

\* A container argument of NULL leaves nothing to extend.
Appends(call, dest) == call = "jemi_append_list" \/ dest # NULL

Apart(call, dest, items) ==
    LET before == Destination(s_jemi_pool, call, dest)
        added  == Chain(s_jemi_pool, items, s_jemi_pool_size)
    IN Acyclic(added) /\ Range(before) \cap Range(added) = {}

RECURSIVE CopyCost(_, _, _)
CopyCost(pool, node, fuel) ==
    IF node = NULL \/ fuel = 0 THEN 0
    ELSE 1 + (IF pool[node].type \in {JEMI_ARRAY, JEMI_OBJECT}
              THEN CopyCost(pool, pool[node].val, fuel - 1) ELSE 0)
           + CopyCost(pool, pool[node].sibling, fuel - 1)

\* C10: for a non-null root and a pool with enough free slots, jemi_copy(root)
\* returns a node other than root whose emitted text is the text of root at the
\* moment of the copy.
C10_CopySameText ==
    [][(/\ op' = "jemi_copy"
        /\ arg'[1] # NULL
        /\ AvailableNow >= CopyCost(s_jemi_pool, arg'[1], s_jemi_pool_size))
         => /\ status' = "ok"
            /\ ret' # NULL
            /\ ret' # arg'[1]
            /\ Text(s_jemi_pool', ret') = Text(s_jemi_pool, arg'[1])]_vars

\* C10 witness: the copy of an object with a nested array was returned, and
\* reads the same as the original.
C10_Witness ==
    /\ op = "jemi_copy"
    /\ status = "ok"
    /\ arg[1] # NULL
    /\ ret \notin {NULL, arg[1]}
    /\ s_jemi_pool[arg[1]].type = JEMI_OBJECT
    /\ \E kid \in Range(ChainOf(s_jemi_pool[arg[1]].val)) :
          s_jemi_pool[kid].type = JEMI_ARRAY /\ s_jemi_pool[kid].val # NULL
    /\ Text(s_jemi_pool, ret) = Text(s_jemi_pool, arg[1])

\* C11: after c = jemi_copy(root), a *_set call on a scalar leaf of the
\* original leaves the emitted text of c as it was; so does any sequence of them.
C11_CopyKeepsText ==
    [][(op' \in SetCalls /\ arg'[1] \in Original)
         => Text(s_jemi_pool', TheCopy) = Text(s_jemi_pool, TheCopy)]_vars

\* C11 witness: a number under the original was set to another value, and the
\* copy, which holds a number too, no longer reads as the original does.
C11_Witness ==
    /\ op = "jemi_number_set"
    /\ arg[1] \in Original
    /\ TheCopy # NULL
    /\ IsContainer(TheCopy)
    /\ \E kid \in Range(ChainOf(s_jemi_pool[TheCopy].val)) :
          s_jemi_pool[kid].type = JEMI_NUMBER /\ s_jemi_pool[kid].val # arg[2]
    /\ \E root \in Original :
          /\ s_jemi_pool[root].type = s_jemi_pool[TheCopy].type
          /\ Len(Text(s_jemi_pool, root)) = Len(Text(s_jemi_pool, TheCopy))
          /\ Text(s_jemi_pool, root) # Text(s_jemi_pool, TheCopy)

\* The key:value entries an object holds, as written.
Entries(pool, object) ==
    PairTexts(pool, Chain(pool, pool[object].val, Len(pool)))

\* C12: in cycles of (set the template's leaves; jemi_copy(template);
\* jemi_append_object(target, copy)) with enough slots, each cycle adds one
\* key:value entry after the earlier ones, showing the template's values of
\* that moment, and no later set changes an entry: after k cycles the target
\* has k entries in cycle order, entry i with the values of cycle i.
C12_TemplateSnapshots ==
    [][/\ (op' \in SetCalls /\ arg'[1] \in TemplateNodes)
           => Text(s_jemi_pool', Target) = Text(s_jemi_pool, Target)
       /\ (op' \in {"jemi_copy", "jemi_append_object"}
              /\ AvailableNow >= CopyCost(s_jemi_pool, Template, s_jemi_pool_size))
           => /\ status' = "ok"
              /\ op' = "jemi_append_object"
              /\ Len(Chain(s_jemi_pool', s_jemi_pool'[Target].val, s_jemi_pool_size))
                   = 2 * Len(Entries(s_jemi_pool', Target))
              /\ Entries(s_jemi_pool', Target)
                   = Append(Entries(s_jemi_pool, Target),
                            PairTexts(s_jemi_pool,
                                      Chain(s_jemi_pool, Template, s_jemi_pool_size))[1])
              /\ Text(s_jemi_pool', Target)
                   = <<"{">> \o Join(Entries(s_jemi_pool', Target), <<",">>) \o <<"}">>
      ]_vars

\* C12 witness: the second cycle has appended its copy; the two entries differ,
\* and the template has moved on from the first.
C12_Witness ==
    /\ op = "jemi_append_object"
    /\ status = "ok"
    /\ Len(Entries(s_jemi_pool, Target)) = 2
    /\ Entries(s_jemi_pool, Target)[1] # Entries(s_jemi_pool, Target)[2]
    /\ Entries(s_jemi_pool, Target)[2]
         = PairTexts(s_jemi_pool, ChainOf(Template))[1]
    /\ s_jemi_pool[s_jemi_pool[Template].sibling].type = JEMI_ARRAY

\* C13: a container built bottom-up (an empty jemi_array(NULL) or
\* jemi_object(NULL), then the elements appended one by one or as one
\* jemi_list) has the children chain and the emitted text of the container the
\* variadic constructor builds top-down from the same elements, when the pool
\* has the slot for the container.
C13_BottomUpIsTopDown ==
    [][(op' \in {"jemi_append_array", "jemi_append_object"}
          /\ s_jemi_freelist # NULL)
         => LET type == IF op' = "jemi_append_array" THEN JEMI_ARRAY ELSE JEMI_OBJECT
                top  == Container(Heap, type, Elems)
            IN /\ status' = "ok"
               /\ s_jemi_pool'[ret'].type = s_jemi_pool'[top.node].type
               /\ Chain(s_jemi_pool', s_jemi_pool'[ret'].val, s_jemi_pool_size)
                    = Chain(top.h.pool, top.h.pool[top.node].val, s_jemi_pool_size)
               /\ Chain(s_jemi_pool', s_jemi_pool'[ret'].val, s_jemi_pool_size) = Elems
               /\ Text(s_jemi_pool', ret') = Text(top.h.pool, top.node)]_vars

\* C13 witness: three elements, a container among them, appended one by one
\* to an empty object.
C13_Witness ==
    /\ op = "jemi_append_object"
    /\ status = "ok"
    /\ ret # NULL
    /\ LET kids == ChainOf(s_jemi_pool[ret].val) IN
       /\ Len(kids) = 3
       /\ arg[2] = kids[3]
       /\ \E i \in 1..3 : IsContainer(kids[i])

\* C14: jemi_array and jemi_object called with the freelist empty return NULL
\* and the call comes back: no store through the missing container node, no
\* hard stop.
C14_ExhaustedContainerIsNull ==
    [][(s_jemi_freelist = NULL /\ op' \in {"jemi_array", "jemi_object"})
         => (status' = "ok" /\ ret' = NULL)]_vars

\* C15: when the pool runs out partway through jemi_copy(root), the call comes
\* back with NULL, not with the part of the chain it copied, and stores through
\* no missing node; the nodes it took stay allocated.
C15_ExhaustedCopyIsNull ==
    [][(/\ op' = "jemi_copy"
        /\ arg'[1] # NULL
        /\ AvailableNow < CopyCost(s_jemi_pool, arg'[1], s_jemi_pool_size))
         => /\ status' = "ok"
            /\ ret' = NULL
            /\ AvailableNow' = 0]_vars

NotNull(node) == node # NULL

\* The arguments va_arg reads: those before the first NULL.
RECURSIVE UpToNull(_, _)
UpToNull(args, i) ==
    IF i > Len(args) \/ args[i] = NULL THEN <<>>
    ELSE <<args[i]>> \o UpToNull(args, i + 1)

\* The chain a variadic call made of its arguments, in the heap it left.
Made(call, result) ==
    IF result = NULL THEN <<>>
    ELSE IF call = "jemi_list"
    THEN Chain(s_jemi_pool', result, s_jemi_pool_size)
    ELSE Chain(s_jemi_pool', s_jemi_pool'[result].val, s_jemi_pool_size)

C17_NullAppendsChangeNothing ==
    [][/\ (op' \in {"jemi_append_array", "jemi_append_object"} /\ arg'[1] = NULL)
           => (status' = "ok" /\ ret' = NULL /\ s_jemi_pool' = s_jemi_pool)
       /\ (op' \in AppendCalls /\ arg'[2] = NULL)
           => /\ status' = "ok"
              /\ ret' = arg'[1]
              /\ s_jemi_pool' = s_jemi_pool
              /\ Destination(s_jemi_pool', op', arg'[1])
                   = Destination(s_jemi_pool, op', arg'[1])
      ]_vars

\* C17 witness: NULL was appended to an object that has children.
C17_Witness ==
    /\ op = "jemi_append_object"
    /\ status = "ok"
    /\ arg[1] # NULL
    /\ arg[2] = NULL
    /\ ret = arg[1]
    /\ Len(ChainOf(s_jemi_pool[arg[1]].val)) = 2

\* C18: jemi_object_add_keyval(object, key, value) takes one slot, for a
\* string node holding key, and extends the children chain of object by two
\* nodes at its end, the key node and then value, so that the pair is written
\* as "key":value after the earlier pairs.
C18_KeyvalAddsPair ==
    [][(/\ op' = "jemi_object_add_keyval"
        /\ arg'[1] # NULL
        /\ arg'[3] # NULL
        /\ s_jemi_freelist # NULL)
         => LET object == arg'[1]
                value  == arg'[3]
                k      == issued'[Len(issued')]
                before == Chain(s_jemi_pool, s_jemi_pool[object].val, s_jemi_pool_size)
                after  == Chain(s_jemi_pool', s_jemi_pool'[object].val, s_jemi_pool_size)
            IN /\ status' = "ok"
               /\ ret' = object
               /\ Len(issued') = Len(issued) + 1
               /\ AvailableNow' = AvailableNow - 1
               /\ s_jemi_pool'[k].type = JEMI_STRING
               /\ s_jemi_pool'[k].val = arg'[2]
               /\ after = before \o <<k, value>>
               /\ (Len(before) % 2 = 0 /\ ~Diverges(Text(s_jemi_pool', object)))
                    => Entries(s_jemi_pool', object)
                         = Append(Entries(s_jemi_pool, object),
                                  <<"\"">> \o StringTable[arg'[2]] \o <<"\"", ":">>
                                    \o Own(s_jemi_pool', value))]_vars

\* C18 witness: a pair with an array for its value was added to an object
\* that held one pair.
C18_Witness ==
    /\ op = "jemi_object_add_keyval"
    /\ status = "ok"
    /\ arg[1] # NULL
    /\ arg[3] # NULL
    /\ LET kids == ChainOf(s_jemi_pool[arg[1]].val) IN
       /\ Len(kids) = 4
       /\ kids[3] = issued[Len(issued)]
       /\ kids[4] = arg[3]
       /\ s_jemi_pool[arg[3]].type = JEMI_ARRAY
       /\ Len(Entries(s_jemi_pool, arg[1])) = 2

\* C19: jemi_emit allocates nothing and changes nothing: the freelist, the
\* free count and every slot (tag, sibling link, payload) are after the call
\* what they were before it, and a second emit of the same root sends the same
\* characters.
C19_EmitChangesNothing ==
    [][op' = "jemi_emit"
         => /\ status' = "ok"
            /\ s_jemi_pool' = s_jemi_pool
            /\ s_jemi_freelist' = s_jemi_freelist
            /\ issued' = issued
            /\ AvailableNow' = AvailableNow
            /\ (op = "jemi_emit" /\ arg = arg') => out' = out
            /\ out' = Text(s_jemi_pool', arg'[1]) \o <<NUL>>]_vars

\* C19 witness: a container with children and a sibling after it was emitted.
C19_Witness ==
    /\ op = "jemi_emit"
    /\ status = "ok"
    /\ arg[1] # NULL
    /\ IsContainer(arg[1])
    /\ s_jemi_pool[arg[1]].val # NULL
    /\ s_jemi_pool[arg[1]].sibling # NULL
    /\ Len(out) > 6

DigitChars == {Digit(d) : d \in 0..9}
DigitValue(ch) == CHOOSE d \in 0..9 : Digit(d) = ch

\* u * 10 + d in 64 bits.
RECURSIVE MulAddAt(_, _, _)
MulAddAt(u, i, carry) ==
    IF i = 0 THEN u
    ELSE LET cur == u[i] * 10 + carry
         IN MulAddAt([u EXCEPT ![i] = cur % Base], i - 1, cur \div Base)

\* The 64-bit value a signed decimal text denotes.
RECURSIVE ReadDigits(_, _, _)
ReadDigits(text, i, acc) ==
    IF i > Len(text) THEN acc
    ELSE ReadDigits(text, i + 1, MulAddAt(acc, Len(acc), DigitValue(text[i])))

ReadDecimal(text) ==
    IF text[1] = "-"
    THEN Negate(ReadDigits(Tail(text), 1, <<0, 0, 0, 0>>))
    ELSE ReadDigits(text, 1, <<0, 0, 0, 0>>)

\* A signed decimal with nothing to spare: digits after an optional '-', no
\* leading zero, no "-0".
MinimalDecimal(text) ==
    LET digits == IF text # <<>> /\ text[1] = "-" THEN Tail(text) ELSE text IN
    /\ digits # <<>>
    /\ Len(digits) <= 19
    /\ \A i \in 1..Len(digits) : digits[i] \in DigitChars
    /\ digits[1] = "0" => text = <<"0">>

\* C20: an integer node is written as the minimal signed decimal of its value,
\* for every signed 64-bit value; INT64_MAX as 9223372036854775807 and
\* INT64_MIN as -9223372036854775808.
C20_IntegerDecimal ==
    (/\ op = "jemi_emit"
     /\ arg[1] # NULL
     /\ s_jemi_pool[arg[1]].type = JEMI_INTEGER
     /\ s_jemi_pool[arg[1]].sibling = NULL)
      => LET v    == s_jemi_pool[arg[1]].val
             text == SubSeq(out, 1, Len(out) - 1)
         IN /\ MinimalDecimal(text)
            /\ ReadDecimal(text) = v
            /\ (text[1] = "-") = (v[1] >= Base \div 2)
            /\ v = Int64Max => text = <<"9", "2", "2", "3", "3", "7", "2", "0", "3", "6", "8", "5", "4", "7", "7", "5", "8", "0", "7">>
            /\ v = Int64Min => text = <<"-", "9", "2", "2", "3", "3", "7", "2", "0", "3", "6", "8", "5", "4", "7", "7", "5", "8", "0", "8">>

\* C20 witness: INT64_MIN was emitted, in twenty characters.
C20_Witness ==
    /\ op = "jemi_emit"
    /\ arg[1] # NULL
    /\ s_jemi_pool[arg[1]].type = JEMI_INTEGER
    /\ s_jemi_pool[arg[1]].sibling = NULL
    /\ s_jemi_pool[arg[1]].val = Int64Min
    /\ Len(out) = 21

\* C21: the separator mode and the position counter belong to one chain: every
\* array, at any depth and also inside an object, is written with ',' between
\* its children and no ':' of its own; every object, also inside an array, with
\* ':' before its children at odd positions and ',' before the later even ones;
\* and in the enclosing chain a nested container counts as one position,
\* however many children it has.
C21_SeparatorsPerChain ==
    op = "jemi_emit" =>
      /\ out = Join(Owns(s_jemi_pool, ChainOf(arg[1])), <<",">>) \o <<NUL>>
      /\ \A c \in Allocated :
           IsContainer(c) =>
             LET kids  == ChainOf(s_jemi_pool[c].val)
                 texts == Owns(s_jemi_pool, kids)
             IN /\ Own(s_jemi_pool, c) =
                     IF s_jemi_pool[c].type = JEMI_ARRAY
                     THEN <<"[">> \o Join(texts, <<",">>) \o <<"]">>
                     ELSE <<"{">> \o ObjectJoin(texts, 1) \o <<"}">>
                /\ (s_jemi_pool[c].type = JEMI_ARRAY
                      /\ \A kid \in Range(kids) : ~IsContainer(kid))
                     => ":" \notin Range(Own(s_jemi_pool, c))

\* C21 witness: an object was emitted that holds, at an odd position and
\* followed by one more child, an object that holds an array of three.
C21_Witness ==
    /\ op = "jemi_emit"
    /\ arg[1] # NULL
    /\ s_jemi_pool[arg[1]].type = JEMI_OBJECT
    /\ s_jemi_pool[arg[1]].sibling = NULL
    /\ LET kids == ChainOf(s_jemi_pool[arg[1]].val) IN
       /\ Len(kids) = 3
       /\ s_jemi_pool[kids[2]].type = JEMI_OBJECT
       /\ \E a \in Range(ChainOf(s_jemi_pool[kids[2]].val)) :
             /\ s_jemi_pool[a].type = JEMI_ARRAY
             /\ Len(ChainOf(s_jemi_pool[a].val)) = 3
             /\ s_jemi_pool[a].sibling # NULL

\* The nodes a node links to: its sibling and, for a container, its first
\* child.
Succ(pool, n) ==
    ({pool[n].sibling}
       \cup (IF pool[n].type \in {JEMI_ARRAY, JEMI_OBJECT} THEN {pool[n].val} ELSE {}))
    \ {NULL}

RECURSIVE Grow(_, _, _)
Grow(pool, seen, fuel) ==
    LET more == seen \cup UNION {Succ(pool, n) : n \in seen} IN
    IF more = seen \/ fuel = 0 THEN seen ELSE Grow(pool, more, fuel - 1)

\* The nodes reachable from root through sibling and children links.
Reach(pool, root) == IF root = NULL THEN {} ELSE Grow(pool, {root}, Len(pool))

\* No node reachable from root is reachable from itself.
Finite(pool, root) ==
    \A n \in Reach(pool, root) : \A s \in Succ(pool, n) : n \notin Reach(pool, s)

\* The links from the nodes of among that lead to n.
InLinks(pool, among, n) ==
    {<<m, "sibling">> : m \in {m \in among : pool[m].sibling = n}}
    \cup {<<m, "children">> :
            m \in {m \in among : /\ pool[m].type \in {JEMI_ARRAY, JEMI_OBJECT}
                                  /\ pool[m].val = n}}

\* Under root no node is linked into more than one place.
Unshared(pool, root) ==
    \A n \in Reach(pool, root) :
       Cardinality(InLinks(pool, Reach(pool, root), n)) = IF n = root THEN 0 ELSE 1

\* The chains at a and b have the same shape and the same tags, node by node.
RECURSIVE Mirror(_, _, _, _)
Mirror(pool, a, b, fuel) ==
    IF a = NULL \/ b = NULL THEN a = b
    ELSE IF fuel = 0 THEN FALSE
    ELSE /\ pool[a].type = pool[b].type
         /\ pool[a].type \in {JEMI_ARRAY, JEMI_OBJECT}
              => Mirror(pool, pool[a].val, pool[b].val, fuel - 1)
         /\ Mirror(pool, pool[a].sibling, pool[b].sibling, fuel - 1)

\* jemi_copy returned a structure made of the `taken` slots it allocated and of
\* nothing else, tag for tag that of root, and left the nodes there were as
\* they were.
CopiedApart(root, taken) ==
    /\ status' = "ok"
    /\ ret' # NULL
    /\ Len(issued') = Len(issued) + taken
    /\ AvailableNow' = AvailableNow - taken
    /\ Reach(s_jemi_pool', ret') = {issued'[i] : i \in (Len(issued) + 1)..Len(issued')}
    /\ Reach(s_jemi_pool', ret') \cap Allocated = {}
    /\ Mirror(s_jemi_pool', root, ret', s_jemi_pool_size)
    /\ \A n \in Allocated : s_jemi_pool'[n] = s_jemi_pool[n]

\* A copy of a finite structure for which the pool has the slots.
CopyWithRoom(root) ==
    /\ op' = "jemi_copy"
    /\ root # NULL
    /\ Finite(s_jemi_pool, root)
    /\ AvailableNow >= CopyCost(s_jemi_pool, root, s_jemi_pool_size)

\* C22 as stated: with enough free slots jemi_copy(root) takes as many slots as
\* there are nodes reachable from root, every node of the result is newly
\* allocated, each has the tag of the node it copies, and no original node is
\* changed.
C22_CopyTakesReachable ==
    [][CopyWithRoom(arg'[1])
         => CopiedApart(arg'[1], Cardinality(Reach(s_jemi_pool, arg'[1])))]_vars

\* C22 amended: with enough free slots jemi_copy(root) takes one slot for each
\* node on each path from root, so as many as there are nodes reachable from
\* root when none of them is linked into more than one place (and more when
\* one is); every node of the result is newly allocated, each has the tag of
\* the node it copies, and no original node is changed.
C22_CopyTakesPerPath ==
    [][CopyWithRoom(arg'[1])
         => /\ CopiedApart(arg'[1], CopyCost(s_jemi_pool, arg'[1], s_jemi_pool_size))
            /\ Unshared(s_jemi_pool, arg'[1])
                 => CopyCost(s_jemi_pool, arg'[1], s_jemi_pool_size)
                      = Cardinality(Reach(s_jemi_pool, arg'[1]))
            /\ ~Unshared(s_jemi_pool, arg'[1])
                 => CopyCost(s_jemi_pool, arg'[1], s_jemi_pool_size)
                      > Cardinality(Reach(s_jemi_pool, arg'[1]))]_vars

\* C22 witness: the copy of a container with two or more children, none of
\* its nodes shared, took as many slots as the container has nodes.
C22_Witness ==
    /\ op = "jemi_copy"
    /\ status = "ok"
    /\ arg[1] # NULL
    /\ ret # NULL
    /\ IsContainer(arg[1])
    /\ Unshared(s_jemi_pool, arg[1])
    /\ Cardinality(Reach(s_jemi_pool, arg[1])) >= 3
    /\ Cardinality(Reach(s_jemi_pool, ret)) = Cardinality(Reach(s_jemi_pool, arg[1]))
    /\ Reach(s_jemi_pool, ret) \cap Reach(s_jemi_pool, arg[1]) = {}

\* C23: a *_set call allocates nothing and returns the node it was given.  On
\* a node that is not NULL it changes that node alone: jemi_number_set and
\* jemi_string_set its payload, jemi_bool_set its tag (TRUE for true, FALSE
\* for false); the node's sibling link, every other node and the freelist
\* stay as they were.  On NULL it changes nothing and returns NULL.
C23_SetChangesOneNode ==
    [][op' \in SetCalls
         => LET node == arg'[1] IN
            /\ status' = "ok"
            /\ ret' = node
            /\ s_jemi_freelist' = s_jemi_freelist
            /\ issued' = issued
            /\ AvailableNow' = AvailableNow
            /\ node = NULL => s_jemi_pool' = s_jemi_pool
            /\ node # NULL =>
                 /\ \A other \in Slots \ {node} : s_jemi_pool'[other] = s_jemi_pool[other]
                 /\ s_jemi_pool'[node].sibling = s_jemi_pool[node].sibling
                 /\ op' \in {"jemi_number_set", "jemi_string_set"} =>
                      /\ s_jemi_pool'[node].type = s_jemi_pool[node].type
                      /\ s_jemi_pool'[node].val = arg'[2]
                 /\ op' = "jemi_bool_set" =>
                      /\ s_jemi_pool'[node].val = s_jemi_pool[node].val
                      /\ s_jemi_pool'[node].type =
                           IF arg'[2] = 1 THEN JEMI_TRUE ELSE JEMI_FALSE]_vars

\* C23 witness: jemi_bool_set(node, false) on a child of the copied container
\* that has a sibling after it; the node reads false and is still linked.
C23_Witness ==
    /\ op = "jemi_bool_set"
    /\ status = "ok"
    /\ arg[1] # NULL
    /\ arg[2] = 0
    /\ ret = arg[1]
    /\ TheCopy # NULL
    /\ IsContainer(TheCopy)
    /\ arg[1] \in Range(ChainOf(s_jemi_pool[TheCopy].val))
    /\ s_jemi_pool[arg[1]].type = JEMI_FALSE
    /\ s_jemi_pool[arg[1]].sibling # NULL

IsNul(ch) == ch = NUL

\* C24: every call of jemi_emit sends the terminating '\0' once, as the last
\* character, after all the characters of the text, also for a NULL root; the
\* walk of the nodes, nested containers included, sends none.
C24_TerminatorLastOnce ==
    op = "jemi_emit" =>
      /\ status = "ok"
      /\ out # <<>>
      /\ out[Len(out)] = NUL
      /\ Len(SelectSeq(out, IsNul)) = 1
      /\ SubSeq(out, 1, Len(out) - 1) = Text(s_jemi_pool, arg[1])
      /\ arg[1] = NULL => Len(out) = 1
      /\ \A node \in Allocated : SelectSeq(Text(s_jemi_pool, node), IsNul) = <<>>

\* C24 witness: a container that holds a container with children was emitted;
\* the terminator came last.
C24_Witness ==
    /\ op = "jemi_emit"
    /\ status = "ok"
    /\ arg[1] # NULL
    /\ IsContainer(arg[1])
    /\ \E kid \in Range(ChainOf(s_jemi_pool[arg[1]].val)) :
          IsContainer(kid) /\ s_jemi_pool[kid].val # NULL
    /\ Len(out) > 10
    /\ out[Len(out)] = NUL

\* C25: on a structure in which no node is linked into more than one place
\* (nothing appended to a chain that holds it, no container under itself),
\* jemi_emit, jemi_copy and the append operations come to an end, and jemi_emit
\* sends finitely many characters; jemi_available comes to an end always.
C25_WalksTerminate ==
    [][/\ (op' \in WalkCalls \ {"jemi_available"} /\ Unshared(s_jemi_pool, arg'[1]))
           => /\ status' # "hang"
              /\ op' \in AppendCalls \cup {"jemi_emit"} => status' = "ok"
              /\ op' = "jemi_emit" =>
                   /\ ~Diverges(out')
                   /\ out'[Len(out')] = NUL
       /\ op' = "jemi_available"
           => status' = "ok" /\ ret' \in 0..s_jemi_pool_size
      ]_vars

\* C25 witness: an object that was given four children by an append, none of
\* its nodes linked twice, was emitted to the end.
C25_Witness ==
    /\ op = "jemi_emit"
    /\ status = "ok"
    /\ arg[1] # NULL
    /\ s_jemi_pool[arg[1]].type = JEMI_OBJECT
    /\ Unshared(s_jemi_pool, arg[1])
    /\ Len(ChainOf(s_jemi_pool[arg[1]].val)) = 4
    /\ out[Len(out)] = NUL

\* The children of a container, in the heap pool.
KidsIn(pool, c) == Chain(pool, pool[c].val, Len(pool))

\* x is the last child of the two containers a and b.
SharedLast(a, b, x) ==
    /\ a # b
    /\ IsContainer(a) /\ IsContainer(b)
    /\ LET ka == KidsIn(s_jemi_pool, a)
           kb == KidsIn(s_jemi_pool, b)
       IN /\ ka # <<>> /\ kb # <<>>
          /\ Acyclic(ka) /\ Acyclic(kb)
          /\ ka[Len(ka)] = x /\ kb[Len(kb)] = x

\* A container as written from the texts of its children.
Wrapped(pool, c, texts) ==
    IF pool[c].type = JEMI_ARRAY
    THEN <<"[">> \o Join(texts, <<",">>) \o <<"]">>
    ELSE <<"{">> \o ObjectJoin(texts, 1) \o <<"}">>

\* C26: a node has one sibling link, so a node x that is the last child of two
\* containers a and b shares its tail with both: a *_set that changes x
\* changes what a and b are written as, each showing the new value in its last
\* place, and an append of y to a puts y after x in b as well.
C26_AliasSharesTail ==
    [][\A a, b, x \in Allocated :
         SharedLast(a, b, x) =>
           /\ (op' \in SetCalls /\ arg'[1] = x) =>
                \A c \in {a, b} :
                   LET kids == KidsIn(s_jemi_pool', c) IN
                   /\ kids = KidsIn(s_jemi_pool, c)
                   /\ Own(s_jemi_pool', c)
                        = Wrapped(s_jemi_pool', c, Owns(s_jemi_pool', kids))
                   /\ s_jemi_pool'[x] # s_jemi_pool[x]
                        => /\ Own(s_jemi_pool', x) # Own(s_jemi_pool, x)
                           /\ Own(s_jemi_pool', c) # Own(s_jemi_pool, c)
           /\ (op' \in {"jemi_append_array", "jemi_append_object"}
                 /\ arg'[1] = a /\ arg'[2] # NULL) =>
                LET added == Chain(s_jemi_pool, arg'[2], s_jemi_pool_size) IN
                /\ status' = "ok"
                /\ s_jemi_pool'[x].sibling = arg'[2]
                /\ KidsIn(s_jemi_pool', a) = KidsIn(s_jemi_pool, a) \o added
                /\ KidsIn(s_jemi_pool', b) = KidsIn(s_jemi_pool, b) \o added
                /\ ~Diverges(Own(s_jemi_pool', b))
                     => /\ Own(s_jemi_pool', b)
                             = Wrapped(s_jemi_pool', b,
                                       Owns(s_jemi_pool', KidsIn(s_jemi_pool', b)))
                        /\ Own(s_jemi_pool', b) # Own(s_jemi_pool, b)
      ]_vars

\* C26 witness: a list of two was appended to a container whose last child x
\* is the last child of another container too; both now hold the two after x.
C26_Witness ==
    /\ op \in {"jemi_append_array", "jemi_append_object"}
    /\ status = "ok"
    /\ arg[1] # NULL
    /\ arg[2] # NULL
    /\ \E b \in Allocated \ {arg[1]} :
          /\ IsContainer(b)
          /\ LET ka == ChainOf(s_jemi_pool[arg[1]].val)
                 kb == ChainOf(s_jemi_pool[b].val)
             IN /\ Acyclic(ka) /\ Acyclic(kb)
                /\ Len(ka) >= 3 /\ Len(kb) >= 3
                /\ ka[Len(ka) - 1] = arg[2] /\ kb[Len(kb) - 1] = arg[2]
                /\ ka[Len(ka) - 2] = kb[Len(kb) - 2]
                /\ Len(ka) # Len(kb)

\* C27: jemi_array, jemi_object and jemi_list store into the sibling link of
\* every argument they read: the next argument, and NULL for the last.  An
\* argument that was the head of a list loses its tail: the nodes of the tail
\* stay allocated and as they were, and are not reachable from the result.
C27_ArgumentsRelinked ==
    [][(op' \in VariadicCalls /\ status' = "ok")
         => LET given == UpToNull(arg', 1) IN
            /\ Made(op', ret') = given
            /\ \A i \in 1..Len(given) :
                 /\ s_jemi_pool'[given[i]].sibling = ArgAt(given, i + 1)
                 /\ \A t \in Range(Chain(s_jemi_pool, s_jemi_pool[given[i]].sibling,
                                          s_jemi_pool_size)) \ Range(given) :
                      /\ t \in Allocated'
                      /\ t \notin Range(FreeList')
                      /\ s_jemi_pool'[t] = s_jemi_pool[t]
                      /\ t \notin Reach(s_jemi_pool', ret')
                      /\ t \notin Reach(s_jemi_pool', given[i])]_vars

\* C27 witness: jemi_array(h, c, NULL) with h the head of a list of two; h is
\* now followed by c, and the number that followed h is linked from nowhere.
C27_Witness ==
    /\ op = "jemi_array"
    /\ status = "ok"
    /\ ret # NULL
    /\ Len(arg) = 2
    /\ arg[1] # NULL /\ arg[2] # NULL
    /\ s_jemi_pool[arg[1]].type = JEMI_STRING
    /\ s_jemi_pool[arg[1]].sibling = arg[2]
    /\ s_jemi_pool[arg[2]].sibling = NULL
    /\ ChainOf(s_jemi_pool[ret].val) = arg
    /\ \E t \in Roots : s_jemi_pool[t].type = JEMI_NUMBER /\ s_jemi_pool[t].val = 255

====
